---- MODULE Spec2Model ----
(***************************************************************************)
(* Fleet lifecycle controller of hanzoai/paas.                             *)
(*                                                                         *)
(* The cluster lifecycle routes (/v1/cluster/doks/...) of one organization *)
(* are modelled as concurrent request handlers.  Every `await` of a        *)
(* handler is one atomic step, so the steps of different requests          *)
(* interleave exactly where the Node.js event loop can interleave them.    *)
(*                                                                         *)
(* The handlers in flight form a bag: a handler has no identity beyond its  *)
(* inputs, its position and its local variables.  `resp` is the response   *)
(* sent by the current step, `arrived` counts the requests received.       *)
(*                                                                         *)
(* Absent JavaScript values (undefined / null) are modelled by the falsy   *)
(* value of the field's type: "" for strings, 0 for numbers and ids,       *)
(* FALSE for flags, << >> for arrays.  The code only ever tests these      *)
(* fields for truthiness.                                                  *)
(***************************************************************************)
EXTENDS Integers, Sequences, FiniteSets, Bags, TLC

\* ---------------------------------------------------------------- bounds
\* Total number of HTTP requests issued in one behaviour.
MaxReq == 3
\* Number of requests whose handlers may be in flight at the same time.
MaxInFlight == 2
\* Number of organizations billed.
MaxOrgs == 2
\* Number of clock ticks (of half the pricing cache's TTL) in one behaviour.
MaxTicks == 2
\* Number of billing calls (getOrgBilling, getFleetBilling) in one behaviour.
MaxBillingCalls == 2
\* Number of subscriptions open and retries pending at the same time.
MaxSubs == 2
\* Number of build events that occur while the watcher is started, stopped
\* and reconnects.
MaxEvents == 1
\* Number of build events that occur while one subscription is observed.
MaxBuildEvents == 2
\* Number of seconds that pass while the watcher is observed.
MaxSeconds == 2
\* Number of provision requests issued while a client keeps polling.
MaxProvisions == 1

\* ------------------------------------------------------------- constants
DEFAULT_REGION == "sfo3"
DEFAULT_NODE_SIZE == "s-2vcpu-4gb"
DEFAULT_NODE_COUNT == 2
\* `count || 3` in updateNodePool
UPDATE_FALLBACK_COUNT == 3
\* lower limit of every pool's scale ceiling: Math.max(count * 3, 6)
MIN_SCALE_CEILING == 6
\* name of the organization the requests are about (org.name)
ORG_NAME == "Acme"

\* `new Date()` of the provisioning mark
CREATED_AT == 1

\* billing.js
HA_MONTHLY_COST == 40
CACHE_TTL == 60 * 60 * 1000

VARIABLES
    doks,       \* the organization document's embedded cluster record (org.doks)
    cloud,      \* the clusters held by the managed-Kubernetes provider
    fresh,      \* the next cluster id and pool id the provider assigns
    inflight,   \* the handlers between their first read and their response
    arrived,    \* number of requests received so far
    resp,       \* the response sent by the current step, if any
    onlyPools,  \* history: the requests so far are a first provision and
                \* node-pool requests
    usageEndpoint,  \* process.env.HANZO_USAGE_ENDPOINT, "" when not set
    usage       \* the usage posts sent by the current step, one after the
                \* other, each with what becomes of it

\* the cost calculator and its pricing cache (handlers/billing.js)
VARIABLES
    orgs,           \* the cluster records of the organizations billed
    markupPercent,  \* MARKUP_PERCENT, read from the environment at load
    sizes,          \* the provider's size list: monthly price per slug
    now,            \* Date.now(), in ms since the process started
    priceCache,     \* the module's priceCache map
    calcs,          \* the calculateOrgCost calls in progress
    fleet,          \* the getFleetBilling call in progress
    billingCalls,   \* number of billing calls made so far
    upstream,       \* number of size-list requests the current step sends
    billed,         \* what a billing call returns in the current step
    priced,         \* what getCachedPricing returns in the current step
    baseline        \* history: the last breakdown returned for the
                    \* organization getOrgBilling is called for, and
                    \* whether prices and cache entries have stayed as
                    \* they were since that calculation began

\* the build event watcher (monitor/handler/watchTaskRuns.js)
VARIABLES
    watchRequest,   \* the module's watchRequest: FALSE for null, TRUE for
                    \* the handle watch.watch returned last
    subs,           \* the subscriptions that are open
    timers,         \* the pending setTimeout(startWatching, ...) timers:
                    \* the bag of the times they are due
    clock,          \* new Date().getTime(), in ms
    events,         \* the build events of the namespace, and whether a
                    \* telemetry status post was dispatched and whether a
                    \* lookup or a request failed for each; where the
                    \* lookup is a step of its own, whether it is pending
                    \* and the rank of the event's post among the posts
    wanted,         \* history: the last explicit call was a start
    delivery,       \* the event the event callback is observed on by
                    \* itself, and the TaskRun it involves
    effects         \* what the event callback run in the current step
                    \* does: the lookup, the requests it sends, the
                    \* errors it logs

clusterVars == <<doks, cloud, fresh, inflight, arrived, resp, onlyPools,
                 usageEndpoint, usage>>
billingVars == <<orgs, markupPercent, sizes, billingCalls, now,
                 priceCache,
                 calcs, fleet,
                 upstream, billed, priced, baseline>>
watchVars == <<watchRequest, subs, timers, clock, events, wanted,
               delivery, effects>>
vars == <<clusterVars, billingVars, watchVars>>

\* the ids the provider can assign within the bound
ClusterIds == 1..MaxReq
PoolIds == 1..MaxReq

\* ------------------------------------------------------- pure helpers
\* Math.max(a, b)
MathMax(a, b) == IF a >= b THEN a ELSE b

\* JavaScript `x || d` on a number (undefined and 0 are both falsy)
OrNum(x, d) == IF x = 0 THEN d ELSE x

\* JavaScript `x || d` on a string (undefined and "" are both falsy)
OrStr(x, d) == IF x = "" THEN d ELSE x

\* `hanzo-${orgName.toLowerCase().replace(/[^a-z0-9]/g, "-").slice(0, 40)}`
slug(orgName) == IF orgName = "Acme" THEN "hanzo-acme" ELSE "hanzo-org"

\* `${slug}-pool`
poolName(s) == IF s = "hanzo-acme" THEN "hanzo-acme-pool" ELSE "hanzo-org-pool"

\* ------------------------------------------------- provider request bodies
\* the node pool of the body createDOKSCluster posts (default parameters
\* replace an undefined nodeSize / nodeCount)
createDOKSClusterPool(orgName, nodeSize, nodeCount) ==
    LET size == OrStr(nodeSize, DEFAULT_NODE_SIZE)
        count == OrNum(nodeCount, DEFAULT_NODE_COUNT)
    IN [size |-> size, name |-> poolName(slug(orgName)), count |-> count,
        auto_scale |-> TRUE, min_nodes |-> 1,
        max_nodes |-> MathMax(count * 3, MIN_SCALE_CEILING)]

\* the body addNodePool posts
addNodePoolBody(name, size, count) ==
    [size |-> OrStr(size, DEFAULT_NODE_SIZE), name |-> name,
     count |-> OrNum(count, DEFAULT_NODE_COUNT),
     auto_scale |-> TRUE, min_nodes |-> 1,
     max_nodes |-> MathMax(OrNum(count, DEFAULT_NODE_COUNT) * 3, MIN_SCALE_CEILING)]

\* the body updateNodePool puts; count = 0 / size = "" mean the key is not sent
updateNodePoolBody(count, size) ==
    [count |-> count, size |-> size,
     auto_scale |-> TRUE, min_nodes |-> 1,
     max_nodes |-> MathMax(OrNum(count, UPDATE_FALLBACK_COUNT) * 3, MIN_SCALE_CEILING)]

\* ------------------------------------------------------------ data shapes
\* org.doks after `doks: null` (and before the first provision)
DoksNull ==
    [isNull |-> TRUE, clusterId |-> 0, clusterName |-> "", status |-> "",
     region |-> "", ha |-> FALSE, endpoint |-> "", nodePools |-> << >>,
     createdAt |-> 0, provisionError |-> ""]

\* a cluster id the provider does not know
NoCluster ==
    [exists |-> FALSE, id |-> 0, name |-> "", region_slug |-> "",
     state |-> "", endpoint |-> "", ha |-> FALSE, node_pools |-> << >>]

NoPool ==
    [id |-> 0, name |-> "", size |-> "", count |-> 0, auto_scale |-> FALSE,
     min_nodes |-> 0, max_nodes |-> 0]

\* req.body / req.params / req.query of the routes, one shape for all
NoBody ==
    [region |-> "", nodeSize |-> "", nodeCount |-> 0, ha |-> FALSE,
     name |-> "", size |-> "", count |-> 0, poolId |-> 0, confirm |-> ""]

\* the local variables of a handler
NewReq ==
    [kind |-> "", pc |-> "", body |-> NoBody, org |-> DoksNull,
     cluster |-> NoCluster, pool |-> NoPool, error |-> "", called |-> {}]

\* no response in this step
NoResp == [kind |-> "", code |-> 0, body |-> NoBody, called |-> {}]

\* the endpoint the provider reports for a cluster once it runs
ENDPOINT == "https://k8s.ondigitalocean.com"

\* error.message of a failed provider call (axios)
PROVIDER_ERROR == "Request failed"

\* res.status(code): the response of a handler, with the request's inputs
\* and the provider calls the handler made
Response(req, code) ==
    [kind |-> req.kind, code |-> code, body |-> req.body, called |-> req.called]

\* ------------------------------------------------ organization persistence
\* orgCtrl.updateOneById(orgId, { "doks.<field>": value, ... }): a partial
\* field update of the embedded record; the fields not named keep their value
updateOneById(d, fields) ==
    [f \in DOMAIN DoksNull |->
        IF f = "isNull" THEN FALSE
        ELSE IF f \in DOMAIN fields THEN fields[f]
        ELSE d[f]]

\* p => ({ poolId: p.id, name: p.name, size: p.size, count: p.count,
\*         autoScale: p.auto_scale })
cachedPool(p) ==
    [poolId |-> p.id, name |-> p.name, size |-> p.size, count |-> p.count,
     autoScale |-> p.auto_scale]

\* cluster.node_pools.map(...)
cachedPools(node_pools) ==
    [i \in 1..Len(node_pools) |-> cachedPool(node_pools[i])]

\* ------------------------------------------------------------ the requests
\* inputs of POST /provision
ProvisionBodies ==
    { [NoBody EXCEPT !.region = rg, !.nodeSize = sz, !.nodeCount = n, !.ha = h] :
        <<rg, sz, n, h>> \in { <<"", "", 0, FALSE>>,
                               <<"nyc1", "s-4vcpu-8gb", 3, TRUE>> } }

\* inputs of POST /:orgId/node-pools
AddPoolBodies ==
    { [NoBody EXCEPT !.name = "workers", !.size = sz, !.count = n] :
        <<sz, n>> \in { <<"", 0>>, <<"s-4vcpu-8gb", 3>> } }

\* inputs of PUT /:orgId/node-pools/:poolId
UpdatePoolBodies ==
    { [NoBody EXCEPT !.poolId = id, !.size = sz, !.count = n] :
        id \in PoolIds, <<sz, n>> \in { <<"", 1>>, <<"s-4vcpu-8gb", 0>> } }

\* inputs of DELETE /:orgId/node-pools/:poolId
DeletePoolBodies == { [NoBody EXCEPT !.poolId = id] : id \in PoolIds }

\* inputs of DELETE /:orgId
DeleteClusterBodies == { [NoBody EXCEPT !.confirm = c] : c \in {"", "true"} }

\* the handlers in flight
InFlight == BagToSet(inflight)

\* a new request can be received
CanBegin ==
    /\ arrived < MaxReq
    /\ BagCardinality(inflight) < MaxInFlight

\* the part of org.doks a handler of this kind reads after its first await
orgRead(kind, org) ==
    CASE kind = "status" ->
            [DoksNull EXCEPT !.clusterId = org.clusterId, !.status = org.status]
      [] kind \in {"addPool", "updatePool", "deletePool"} ->
            [DoksNull EXCEPT !.clusterId = org.clusterId,
                             !.nodePools = org.nodePools]
      [] kind \in {"upgradeHA", "deleteCluster"} ->
            [DoksNull EXCEPT !.clusterId = org.clusterId]
      [] OTHER -> DoksNull

\* the handler has read the organization and goes on to its next await
Begun(kind, body, org, pc) ==
    [NewReq EXCEPT !.kind = kind, !.pc = pc, !.body = body,
                   !.org = orgRead(kind, org)]

Called(req, op) == [req EXCEPT !.called = @ \cup {op}]

\* the step of a request's arrival: the handler either responds at once or
\* stays in flight
Arrive(kind, body, rejectCode, pc) ==
    /\ CanBegin
    /\ arrived' = arrived + 1
    /\ onlyPools' = (/\ onlyPools
                     /\ kind \in {"provision", "addPool", "updatePool", "deletePool"}
                     /\ kind = "provision" => arrived = 0)
    /\ IF rejectCode # 0
       THEN /\ resp' = Response(Begun(kind, body, doks, ""), rejectCode)
            /\ UNCHANGED inflight
       ELSE /\ resp' = NoResp
            /\ inflight' = inflight (+) SetToBag({Begun(kind, body, doks, pc)})
    /\ usage' = << >>
    /\ UNCHANGED usageEndpoint
    /\ UNCHANGED <<billingVars, watchVars>>

\* the handler goes on to its next await
Continue(req, next) ==
    /\ inflight' = (inflight (-) SetToBag({req})) (+) SetToBag({next})
    /\ resp' = NoResp
    /\ usage' = << >>
    /\ UNCHANGED <<arrived, onlyPools, usageEndpoint>>
    /\ UNCHANGED <<billingVars, watchVars>>

\* the handler req, whose locals have become `last`, sends its response
\* and ends
Respond(req, last, code) ==
    /\ inflight' = inflight (-) SetToBag({req})
    /\ resp' = Response(last, code)
    /\ usage' = << >>
    /\ UNCHANGED <<arrived, onlyPools, usageEndpoint>>
    /\ UNCHANGED <<billingVars, watchVars>>

\* recordUsageEvent(orgId, eventData), which no caller awaits: the posts
\* it may send.  No request without an endpoint; else one post, which
\* succeeds, fails or times out after 5 s, the error being caught and
\* logged.  The model has one organization, the orgId of every event.
recordUsageEvent(eventData) ==
    IF usageEndpoint = "" THEN { << >> }
    ELSE { << [endpoint |-> usageEndpoint, event |-> "infrastructure_usage",
               properties |-> eventData, outcome |-> outcome] >> :
                outcome \in {"ok", "failed", "timeout"} }

\* the handler calls recordUsageEvent and goes on to its next await
ContinueTracking(req, next, eventData) ==
    /\ inflight' = (inflight (-) SetToBag({req})) (+) SetToBag({next})
    /\ resp' = NoResp
    /\ usage' \in recordUsageEvent(eventData)
    /\ UNCHANGED <<arrived, onlyPools, usageEndpoint>>
    /\ UNCHANGED <<billingVars, watchVars>>

RespondTracking_failing(req, last, code, eventData) ==
    /\ inflight' = inflight (-) SetToBag({req})
    /\ usage' \in recordUsageEvent(eventData)
    /\ resp' = Response(last, IF usage' # << >> /\ usage'[1].outcome # "ok"
                              THEN 500 ELSE code)
    /\ UNCHANGED <<arrived, onlyPools, usageEndpoint>>
    /\ UNCHANGED <<billingVars, watchVars>>

\* the handler calls recordUsageEvent, sends its response and ends
RespondTracking(req, last, code, eventData) ==
    /\ inflight' = inflight (-) SetToBag({req})
    /\ resp' = Response(last, code)
    /\ usage' \in recordUsageEvent(eventData)
    /\ UNCHANGED <<arrived, onlyPools, usageEndpoint>>
    /\ UNCHANGED <<billingVars, watchVars>>

\* ------------------------------------------------------- POST /provision
\* `org.doks?.clusterId && org.doks?.status !== "error"`
provisionConflict(org) == org.clusterId # 0 /\ org.status # "error"

\* the fields of the "Mark org as provisioning" update
provisioningFields(body) ==
    [status |-> "provisioning", region |-> OrStr(body.region, "sfo3"),
     ha |-> body.ha, createdAt |-> CREATED_AT]

\* variant: a created cluster is recorded as running whatever state the
\* provider reports
clusterInfoFields_running(cluster) ==
    [clusterId |-> cluster.id, clusterName |-> cluster.name,
     region |-> cluster.region_slug,
     status |-> "running",
     endpoint |-> cluster.endpoint, ha |-> cluster.ha,
     nodePools |-> cachedPools(cluster.node_pools)]

\* the fields of the "Update org with cluster info" update
clusterInfoFields(cluster) ==
    [clusterId |-> cluster.id, clusterName |-> cluster.name,
     region |-> cluster.region_slug,
     status |-> IF cluster.state = "running" THEN "running" ELSE "provisioning",
     endpoint |-> cluster.endpoint, ha |-> cluster.ha,
     nodePools |-> cachedPools(cluster.node_pools)]

\* variant: the catch block records the status but loses the message
provisionErrorFields_noMessage(message) ==
    [status |-> "error", provisionError |-> ""]

\* the fields of the update in the catch block
provisionErrorFields(message) ==
    [status |-> "error", provisionError |-> message]

\* the node pool the provider creates from a posted pool body; the provider
\* assigns the id
cloudNewPool(id, b) ==
    [id |-> id, name |-> b.name, size |-> b.size, count |-> b.count,
     auto_scale |-> b.auto_scale, min_nodes |-> b.min_nodes,
     max_nodes |-> b.max_nodes]

\* the cluster the provider creates from the body createDOKSCluster posts;
\* the provider assigns the ids and reports the state
createDOKSCluster(id, poolId, body, state) ==
    [exists |-> TRUE, id |-> id, name |-> slug(ORG_NAME),
     region_slug |-> OrStr(body.region, DEFAULT_REGION),
     state |-> state,
     endpoint |-> IF state = "running" THEN ENDPOINT ELSE "",
     ha |-> body.ha,
     node_pools |->
        << cloudNewPool(poolId,
              createDOKSClusterPool(ORG_NAME, body.nodeSize, body.nodeCount)) >>]

\* variant: a provision in flight conflicts as well
provision_getOneById_exclusive(body) ==
    /\ Arrive("provision", body,
              IF \/ provisionConflict(doks)
                 \/ \E req \in BagToSet(inflight) : req.kind = "provision"
              THEN 409 ELSE 0,
              "mark")
    /\ UNCHANGED <<doks, cloud, fresh>>

provision_getOneById(body) ==
    /\ Arrive("provision", body, IF provisionConflict(doks) THEN 409 ELSE 0, "mark")
    /\ UNCHANGED <<doks, cloud, fresh>>

provision_markProvisioning(req) ==
    /\ req.kind = "provision" /\ req.pc = "mark"
    /\ doks' = updateOneById(doks, provisioningFields(req.body))
    /\ Continue(req, [req EXCEPT !.pc = "create"])
    /\ UNCHANGED <<cloud, fresh>>

provision_createDOKSCluster(req) ==
    /\ req.kind = "provision" /\ req.pc = "create"
    /\ \/ \E state \in {"provisioning", "running"} :
            LET cluster == createDOKSCluster(fresh.cluster, fresh.pool, req.body, state)
            IN /\ cloud' = [cloud EXCEPT ![cluster.id] = cluster]
               /\ fresh' = [cluster |-> fresh.cluster + 1, pool |-> fresh.pool + 1]
               /\ Continue(req, [Called(req, "createDOKSCluster") EXCEPT
                                    !.pc = "update", !.cluster = cluster])
       \/ /\ Continue(req, [Called(req, "createDOKSCluster") EXCEPT
                                !.pc = "catch", !.error = PROVIDER_ERROR])
          /\ UNCHANGED <<cloud, fresh>>
    /\ UNCHANGED doks

provision_updateOrg(req) ==
    /\ req.kind = "provision" /\ req.pc = "update"
    /\ doks' = updateOneById(doks, clusterInfoFields(req.cluster))
    /\ RespondTracking(req, req, 201,
            [action |-> "cluster_provision", clusterId |-> req.cluster.id])
    /\ UNCHANGED <<cloud, fresh>>

provision_catch(req) ==
    /\ req.kind = "provision" /\ req.pc = "catch"
    /\ doks' = updateOneById(doks, provisionErrorFields(req.error))
    /\ Respond(req, req, 500)
    /\ UNCHANGED <<cloud, fresh>>

\* --------------------------------------------------- GET /:orgId/status
\* `!org?.doks?.clusterId`
noCluster(org) == org.clusterId = 0

\* variant: the cached status follows the provider's state, running or not
newStatus_provider(cluster, org) ==
    IF cluster.state = "running" THEN "running" ELSE "provisioning"

\* `cluster.status.state === "running" ? "running" : org.doks.status`
newStatus(cluster, org) ==
    IF cluster.state = "running" THEN "running" ELSE org.status

\* variant: the update refreshes the endpoint and the node pools and keeps
\* the status that was read
statusFields_cached(cluster, org) ==
    [status |-> org.status, endpoint |-> cluster.endpoint,
     nodePools |-> cachedPools(cluster.node_pools)]

\* the fields of the "Update cached status" update
statusFields(cluster, org) ==
    [status |-> newStatus(cluster, org), endpoint |-> cluster.endpoint,
     nodePools |-> cachedPools(cluster.node_pools)]

status_getOneById ==
    /\ Arrive("status", NoBody, IF noCluster(doks) THEN 404 ELSE 0, "get")
    /\ UNCHANGED <<doks, cloud, fresh>>

\* getDOKSCluster returns the provider's cluster or throws; when the cached
\* status needs no update the handler responds without a further await
status_getDOKSCluster(req) ==
    /\ req.kind = "status" /\ req.pc = "get"
    /\ LET called == Called(req, "getDOKSCluster")
           cluster == cloud[req.org.clusterId]
       IN \/ /\ cluster.exists
             /\ IF newStatus(cluster, req.org) # req.org.status
                THEN Continue(req, [called EXCEPT !.pc = "write",
                                                  !.cluster = cluster])
                ELSE Respond(req, called, 200)
          \/ Respond(req, called, 500)
    /\ UNCHANGED <<doks, cloud, fresh>>

status_updateCache(req) ==
    /\ req.kind = "status" /\ req.pc = "write"
    /\ doks' = updateOneById(doks, statusFields(req.cluster, req.org))
    /\ Respond(req, req, 200)
    /\ UNCHANGED <<cloud, fresh>>

\* GET /:orgId/status of a client that polls for as long as it takes: the
\* same first step as status_getOneById, the request not being one of the
\* MaxReq requests that are counted
poll_getOneById ==
    /\ BagCardinality(inflight) < MaxInFlight
    /\ IF noCluster(doks)
       THEN /\ resp' = Response(Begun("status", NoBody, doks, ""), 404)
            /\ UNCHANGED inflight
       ELSE /\ resp' = NoResp
            /\ inflight' = inflight
                    (+) SetToBag({Begun("status", NoBody, doks, "get")})
    /\ onlyPools' = FALSE
    /\ usage' = << >>
    /\ UNCHANGED <<doks, cloud, fresh, arrived, usageEndpoint>>
    /\ UNCHANGED <<billingVars, watchVars>>

\* --------------------------------------------- the node-pool routes' guard
\* variant: the guard looks at the clusterId only
notReady_idOnly(org) == org.clusterId = 0

\* `!org?.doks?.clusterId || org.doks.status !== "running"`
notReady(org) == org.clusterId = 0 \/ org.status # "running"

\* ------------------------------------------------ POST /:orgId/node-pools
\* `[...(org.doks.nodePools || []), { poolId: pool.id, ... }]`
poolsAfterAdd(org, pool) == Append(org.nodePools, cachedPool(pool))

addPool_getOneById(body) ==
    /\ Arrive("addPool", body, IF notReady(doks) THEN 400 ELSE 0, "call")
    /\ UNCHANGED <<doks, cloud, fresh>>

\* variant: the provider gives the new pool the id it assigned last
addPool_addNodePool_reusedId(req) ==
    /\ req.kind = "addPool" /\ req.pc = "call"
    /\ LET called == Called(req, "addNodePool")
           c == req.org.clusterId
           pool == cloudNewPool(fresh.pool - 1,
                addNodePoolBody(req.body.name, req.body.size, req.body.count))
       IN \/ /\ cloud[c].exists
             /\ cloud' = [cloud EXCEPT ![c].node_pools = Append(@, pool)]
             /\ Continue(req, [called EXCEPT !.pc = "write", !.pool = pool])
          \/ /\ Respond(req, called, 500)
             /\ UNCHANGED cloud
    /\ UNCHANGED <<doks, fresh>>

addPool_addNodePool(req) ==
    /\ req.kind = "addPool" /\ req.pc = "call"
    /\ LET called == Called(req, "addNodePool")
           c == req.org.clusterId
           pool == cloudNewPool(fresh.pool,
                addNodePoolBody(req.body.name, req.body.size, req.body.count))
       IN \/ /\ cloud[c].exists
             /\ cloud' = [cloud EXCEPT ![c].node_pools = Append(@, pool)]
             /\ fresh' = [fresh EXCEPT !.pool = @ + 1]
             /\ Continue(req, [called EXCEPT !.pc = "write", !.pool = pool])
          \/ /\ Respond(req, called, 500)
             /\ UNCHANGED <<cloud, fresh>>
    /\ UNCHANGED doks

addPool_updateCache(req) ==
    /\ req.kind = "addPool" /\ req.pc = "write"
    /\ doks' = updateOneById(doks,
            [nodePools |-> poolsAfterAdd(req.org, req.pool)])
    /\ RespondTracking(req, req, 201,
            [action |-> "node_pool_add", clusterId |-> 0])
    /\ UNCHANGED <<cloud, fresh>>

\* ----------------------------------------- PUT /:orgId/node-pools/:poolId
\* the pool the provider holds after an update: a key that was not sent
\* keeps its value
cloudUpdatedPool(old, b) ==
    [old EXCEPT !.count = IF b.count # 0 THEN b.count ELSE @,
                !.size = IF b.size # "" THEN b.size ELSE @,
                !.auto_scale = b.auto_scale,
                !.min_nodes = b.min_nodes,
                !.max_nodes = b.max_nodes]

\* `(org.doks.nodePools || []).map((p) => p.poolId === poolId
\*      ? { ...p, count: pool.count, size: pool.size } : p)`
poolsAfterUpdate(org, poolId, pool) ==
    [i \in 1..Len(org.nodePools) |->
        IF org.nodePools[i].poolId = poolId
        THEN [org.nodePools[i] EXCEPT !.count = pool.count, !.size = pool.size]
        ELSE org.nodePools[i]]

updatePool_getOneById(body) ==
    /\ Arrive("updatePool", body, IF notReady(doks) THEN 400 ELSE 0, "call")
    /\ UNCHANGED <<doks, cloud, fresh>>

updatePool_updateNodePool(req) ==
    /\ req.kind = "updatePool" /\ req.pc = "call"
    /\ LET called == Called(req, "updateNodePool")
           c == req.org.clusterId
           b == updateNodePoolBody(req.body.count, req.body.size)
       IN \/ /\ cloud[c].exists
             /\ \E i \in 1..Len(cloud[c].node_pools) :
                  /\ cloud[c].node_pools[i].id = req.body.poolId
                  /\ LET pool == cloudUpdatedPool(cloud[c].node_pools[i], b)
                     IN /\ cloud' = [cloud EXCEPT ![c].node_pools[i] = pool]
                        /\ Continue(req, [called EXCEPT !.pc = "write",
                                                        !.pool = pool])
          \/ /\ Respond(req, called, 500)
             /\ UNCHANGED cloud
    /\ UNCHANGED <<doks, fresh>>

updatePool_updateCache(req) ==
    /\ req.kind = "updatePool" /\ req.pc = "write"
    /\ doks' = updateOneById(doks,
            [nodePools |-> poolsAfterUpdate(req.org, req.body.poolId, req.pool)])
    /\ Respond(req, req, 200)
    /\ UNCHANGED <<cloud, fresh>>

\* -------------------------------------- DELETE /:orgId/node-pools/:poolId
\* `(org.doks.nodePools || []).filter((p) => p.poolId !== poolId)`
poolsAfterDelete(org, poolId) ==
    SelectSeq(org.nodePools, LAMBDA p : p.poolId # poolId)

deletePool_getOneById(body) ==
    /\ Arrive("deletePool", body, IF notReady(doks) THEN 400 ELSE 0, "call")
    /\ UNCHANGED <<doks, cloud, fresh>>

\* variant: the handler persists the removal first and assumes the provider
\* call will succeed
deletePool_deleteNodePool_eager(req) ==
    /\ req.kind = "deletePool" /\ req.pc = "call"
    /\ LET called == Called(req, "deleteNodePool")
           c == req.org.clusterId
       IN \/ /\ cloud[c].exists
             /\ \E i \in 1..Len(cloud[c].node_pools) :
                    cloud[c].node_pools[i].id = req.body.poolId
             /\ cloud' = [cloud EXCEPT ![c].node_pools =
                    SelectSeq(@, LAMBDA p : p.id # req.body.poolId)]
             /\ Continue(req, [called EXCEPT !.pc = "write"])
             /\ UNCHANGED doks
          \/ /\ Respond(req, called, 500)
             /\ doks' = updateOneById(doks,
                    [nodePools |-> poolsAfterDelete(req.org, req.body.poolId)])
             /\ UNCHANGED cloud
    /\ UNCHANGED fresh

deletePool_deleteNodePool(req) ==
    /\ req.kind = "deletePool" /\ req.pc = "call"
    /\ LET called == Called(req, "deleteNodePool")
           c == req.org.clusterId
       IN \/ /\ cloud[c].exists
             /\ \E i \in 1..Len(cloud[c].node_pools) :
                    cloud[c].node_pools[i].id = req.body.poolId
             /\ cloud' = [cloud EXCEPT ![c].node_pools =
                    SelectSeq(@, LAMBDA p : p.id # req.body.poolId)]
             /\ Continue(req, [called EXCEPT !.pc = "write"])
          \/ /\ Respond(req, called, 500)
             /\ UNCHANGED cloud
    /\ UNCHANGED <<doks, fresh>>

deletePool_updateCache(req) ==
    /\ req.kind = "deletePool" /\ req.pc = "write"
    /\ doks' = updateOneById(doks,
            [nodePools |-> poolsAfterDelete(req.org, req.body.poolId)])
    /\ Respond(req, req, 204)
    /\ UNCHANGED <<cloud, fresh>>

\* ------------------------------------------------ POST /:orgId/upgrade-ha
\* `org.doks.ha`
alreadyHA(org) == org.ha

\* the fields of the update after upgradeToHA
haFields == [ha |-> TRUE]

\* variant: the handler persists ha = true when it accepts the request,
\* before the provider call
upgradeHA_getOneById_optimistic ==
    /\ Arrive("upgradeHA", NoBody,
              IF notReady(doks) THEN 400 ELSE IF alreadyHA(doks) THEN 409 ELSE 0,
              "call")
    /\ doks' = IF notReady(doks) \/ alreadyHA(doks) THEN doks
               ELSE updateOneById(doks, haFields)
    /\ UNCHANGED <<cloud, fresh>>

upgradeHA_getOneById ==
    /\ Arrive("upgradeHA", NoBody,
              IF notReady(doks) THEN 400 ELSE IF alreadyHA(doks) THEN 409 ELSE 0,
              "call")
    /\ UNCHANGED <<doks, cloud, fresh>>

upgradeHA_upgradeToHA(req) ==
    /\ req.kind = "upgradeHA" /\ req.pc = "call"
    /\ LET called == Called(req, "upgradeToHA")
           c == req.org.clusterId
       IN \/ /\ cloud[c].exists
             /\ cloud' = [cloud EXCEPT ![c].ha = TRUE]
             /\ Continue(req, [called EXCEPT !.pc = "write",
                                             !.cluster = [cloud[c] EXCEPT !.ha = TRUE]])
          \/ /\ Respond(req, called, 500)
             /\ UNCHANGED cloud
    /\ UNCHANGED <<doks, fresh>>

upgradeHA_updateCache(req) ==
    /\ req.kind = "upgradeHA" /\ req.pc = "write"
    /\ doks' = updateOneById(doks, haFields)
    /\ RespondTracking(req, req, 200,
            [action |-> "ha_upgrade", clusterId |-> 0])
    /\ UNCHANGED <<cloud, fresh>>

\* ---------------------------------------------------------- DELETE /:orgId
\* variant: only an explicit confirm=false refuses the deletion
notConfirmed_onlyFalse(body) == body.confirm = "false"

\* `req.query.confirm !== "true"`
notConfirmed(body) == body.confirm # "true"

\* the fields of the update before deleteDOKSCluster
deletingFields == [status |-> "deleting"]

deleteCluster_getOneById(body) ==
    /\ Arrive("deleteCluster", body,
              IF noCluster(doks) THEN 404
              ELSE IF notConfirmed(body) THEN 400 ELSE 0,
              "mark")
    /\ UNCHANGED <<doks, cloud, fresh>>

deleteCluster_markDeleting(req) ==
    /\ req.kind = "deleteCluster" /\ req.pc = "mark"
    /\ doks' = updateOneById(doks, deletingFields)
    /\ Continue(req, [req EXCEPT !.pc = "call"])
    /\ UNCHANGED <<cloud, fresh>>

\* variant: a failed provider delete is swallowed and the handler goes on to
\* clear the record
deleteCluster_deleteDOKSCluster_swallow(req) ==
    /\ req.kind = "deleteCluster" /\ req.pc = "call"
    /\ LET called == Called(req, "deleteDOKSCluster")
           c == req.org.clusterId
       IN \/ /\ cloud[c].exists
             /\ cloud' = [cloud EXCEPT ![c] = NoCluster]
             /\ ContinueTracking(req, [called EXCEPT !.pc = "clear"],
                    [action |-> "cluster_delete", clusterId |-> c])
          \/ /\ Continue(req, [called EXCEPT !.pc = "clear"])
             /\ UNCHANGED cloud
    /\ UNCHANGED <<doks, fresh>>

deleteCluster_deleteDOKSCluster(req) ==
    /\ req.kind = "deleteCluster" /\ req.pc = "call"
    /\ LET called == Called(req, "deleteDOKSCluster")
           c == req.org.clusterId
       IN \/ /\ cloud[c].exists
             /\ cloud' = [cloud EXCEPT ![c] = NoCluster]
             /\ ContinueTracking(req, [called EXCEPT !.pc = "clear"],
                    [action |-> "cluster_delete", clusterId |-> c])
          \/ /\ Respond(req, called, 500)
             /\ UNCHANGED cloud
    /\ UNCHANGED <<doks, fresh>>

\* `updateOneById(orgId, { doks: null })`
deleteCluster_clear(req) ==
    /\ req.kind = "deleteCluster" /\ req.pc = "clear"
    /\ doks' = DoksNull
    /\ Respond(req, req, 204)
    /\ UNCHANGED <<cloud, fresh>>

\* ------------------------------------------------------------- provider
\* the provider finishes bringing a cluster up
cloudClusterRunning(c) ==
    /\ cloud[c].exists /\ cloud[c].state = "provisioning"
    /\ cloud' = [cloud EXCEPT ![c].state = "running", ![c].endpoint = ENDPOINT]
    /\ resp' = NoResp
    /\ usage' = << >>
    /\ UNCHANGED <<doks, fresh, inflight, arrived, onlyPools, usageEndpoint>>
    /\ UNCHANGED <<billingVars, watchVars>>

\* ====================================================================
\* Cost calculator and pricing cache (handlers/billing.js)
\* ====================================================================
OrgIds == 1..MaxOrgs

\* the size slugs node pools are made of
Slugs == {"s-2vcpu-4gb", "s-4vcpu-8gb"}

\* the size whose listing the provider changes
CHANGING_SLUG == "s-2vcpu-4gb"

\* the clock advances in steps of half the cache's TTL
TickMs == CACHE_TTL \div 2

\* vcpus and memory (MB) of a size, as the provider lists them
sizeVcpus(sizeSlug) == IF sizeSlug = "s-2vcpu-4gb" THEN 2 ELSE 4
sizeMemory(sizeSlug) == IF sizeSlug = "s-2vcpu-4gb" THEN 4096 ELSE 8192

\* getDropletPricing returned null / no value
NoPricing == [slug |-> "", priceMonthly |-> 0, vcpus |-> 0, memory |-> 0]

\* `res.data.sizes.find((s) => s.slug === sizeSlug)` and the object
\* getDropletPricing builds from it
getDropletPricing(sizeSlug) ==
    IF sizes[sizeSlug] = 0 THEN NoPricing
    ELSE [slug |-> sizeSlug, priceMonthly |-> sizes[sizeSlug],
          vcpus |-> sizeVcpus(sizeSlug), memory |-> sizeMemory(sizeSlug)]

\* priceCache.get(sizeSlug) of a slug never stored
NoEntry == [has |-> FALSE, data |-> NoPricing, ts |-> 0]

\* variant: the entry is fresh up to and including the TTL
cacheFresh_inclusive(cached) == cached.has /\ now - cached.ts <= CACHE_TTL

\* `cached && Date.now() - cached.ts < CACHE_TTL`
cacheFresh(cached) == cached.has /\ now - cached.ts < CACHE_TTL

\* variant: a hit returns the cache entry instead of its data, whose
\* priceMonthly is undefined
cacheHit_entry(cached) == NoPricing

\* `return cached.data`
cacheHit(cached) == cached.data

\* variant: the result of the fetch is stored whether or not a size matched
cacheStore_always(cache, sizeSlug, data) ==
    [cache EXCEPT ![sizeSlug] = [has |-> TRUE, data |-> data, ts |-> now]]

\* `if (data) priceCache.set(sizeSlug, { data, ts: Date.now() })`
cacheStore(cache, sizeSlug, data) ==
    IF data # NoPricing
    THEN [cache EXCEPT ![sizeSlug] = [has |-> TRUE, data |-> data, ts |-> now]]
    ELSE cache

\* ------------------------------------------------------ calculateOrgCost
NoItem ==
    [type |-> "", pool |-> "", size |-> "", count |-> 0, unitPrice |-> 0,
     monthlyTotal |-> 0, vcpus |-> 0, memoryMb |-> 0]

\* the line item of a node pool whose price was found
nodesItem(pool, pricing) ==
    [type |-> "nodes", pool |-> pool.name, size |-> pool.size,
     count |-> pool.count, unitPrice |-> pricing.priceMonthly,
     monthlyTotal |-> pricing.priceMonthly * pool.count,
     vcpus |-> pricing.vcpus * pool.count,
     memoryMb |-> pricing.memory * pool.count]

\* `{ type: "ha_control_plane", monthlyTotal: HA_MONTHLY_COST }`
haItem == [NoItem EXCEPT !.type = "ha_control_plane",
                         !.monthlyTotal = HA_MONTHLY_COST]

\* reduce((sum, x) => sum + x, 0)
RECURSIVE sum(_)
sum(xs) == IF xs = << >> THEN 0 ELSE Head(xs) + sum(Tail(xs))

\* `items.reduce((sum, i) => sum + i.monthlyTotal, 0)`
sumMonthlyTotal(items) == sum([i \in 1..Len(items) |-> items[i].monthlyTotal])

\* `subtotal * (MARKUP_PERCENT / 100)`; with the percentages of the model
\* (0 and 50) and its subtotals (multiples of 20) the product is exact, in
\* the integers as in the doubles of the code
markupOf(subtotal) == (subtotal * markupPercent) \div 100

NoBreakdown ==
    [orgId |-> 0, clusterId |-> 0, status |-> "", items |-> << >>,
     subtotal |-> 0, markupPercent |-> 0, markup |-> 0, monthlyTotal |-> 0,
     currency |-> ""]

\* `{ monthlyTotal: 0, items: [], currency: "USD" }`
zeroCost == [NoBreakdown EXCEPT !.currency = "USD"]

\* variant: only a record without a clusterId is free of charge
notBillable_idOnly(org) == org.clusterId = 0

\* `!org?.doks?.clusterId || org.doks.status === "error"`
notBillable(org) == org.clusterId = 0 \/ org.status = "error"

\* variant: the HA line item is emitted for every cluster
withHA_always(org, items) == Append(items, haItem)

\* `if (org.doks.ha) items.push({ type: "ha_control_plane", ... })`
withHA(org, items) == IF org.ha THEN Append(items, haItem) ELSE items

\* the breakdown calculateOrgCost returns after the node-pool loop
breakdown(o, org, poolItems) ==
    LET items == withHA(org, poolItems)
        subtotal == sumMonthlyTotal(items)
        markup == markupOf(subtotal)
    IN [orgId |-> o, clusterId |-> org.clusterId, status |-> org.status,
        items |-> items, subtotal |-> subtotal,
        markupPercent |-> markupPercent, markup |-> markup,
        monthlyTotal |-> subtotal + markup, currency |-> "USD"]

\* ------------------------------------------------------ the calls in progress
\* the organization getOrgBilling is called for
BILLED_ORG == 1

\* one calculateOrgCost on behalf of getOrgBilling, and one per organization
\* on behalf of getFleetBilling
TaskIds == {<<BILLED_ORG, "org">>} \cup (OrgIds \X {"fleet"})

\* no calculation in progress
NoCalc == [pc |-> "idle", i |-> 0, items |-> << >>, clean |-> FALSE]

NoSummary ==
    [totalOrgs |-> 0, totalMonthly |-> 0, totalNodes |-> 0, totalVcpus |-> 0,
     totalMemoryGb |-> 0, currency |-> ""]

\* no billing call returns in this step
NoBilled ==
    [kind |-> "", org |-> 0, ok |-> FALSE, result |-> NoBreakdown,
     organizations |-> << >>, summary |-> NoSummary]

\* no getFleetBilling in progress
NoFleet ==
    [active |-> FALSE, done |-> {}, results |-> [o \in OrgIds |-> NoBreakdown]]

\* no breakdown returned yet that later ones can be compared with
NoBaseline == [valid |-> FALSE, result |-> NoBreakdown]

\* orgCtrl.getManyByQuery({ "doks.clusterId": { $exists: true, $ne: null } }),
\* in the order of the ids
fleetOrgs ==
    SelectSeq([o \in 1..MaxOrgs |-> o], LAMBDA o : orgs[o].clusterId # 0)

\* the count / vcpus / memoryMb summed over the "nodes" items of a breakdown
nodesTotal(r, field) ==
    sum([i \in 1..Len(r.items) |->
            IF r.items[i].type = "nodes" THEN r.items[i][field] ELSE 0])

\* Math.round(x / 1024) of a non-negative integer
roundDiv1024(x) == (2 * x + 1024) \div 2048

\* what getFleetBilling returns from the results of its calculations
fleetBilling(results) ==
    [NoBilled EXCEPT
        !.kind = "fleet", !.ok = TRUE,
        !.organizations = results,
        !.summary =
            [totalOrgs |-> Len(results),
             totalMonthly |->
                sum([i \in 1..Len(results) |-> results[i].monthlyTotal]),
             totalNodes |->
                sum([i \in 1..Len(results) |-> nodesTotal(results[i], "count")]),
             totalVcpus |->
                sum([i \in 1..Len(results) |-> nodesTotal(results[i], "vcpus")]),
             totalMemoryGb |->
                roundDiv1024(sum([i \in 1..Len(results) |->
                                    nodesTotal(results[i], "memoryMb")])),
             currency |-> "USD"]]

\* a return of getCachedPricing
Lookup(sizeSlug, outcome, data) ==
    [slug |-> sizeSlug, outcome |-> outcome, data |-> data]

\* `if (pricing) items.push({ type: "nodes", ... })`
pushItem(items, pool, pricing) ==
    IF pricing # NoPricing THEN Append(items, nodesItem(pool, pricing))
    ELSE items

\* the node-pool loop of calculateOrgCost from pool i on, up to its next
\* await of the provider: getCachedPricing returns every fresh entry
\* without leaving the turn, and requests the size list for the first pool
\* whose entry is missing or expired.  `cache` is the priceCache the loop
\* reads, `lookups` the returns of getCachedPricing so far in this turn.
RECURSIVE poolLoop(_, _, _, _, _)
poolLoop(org, i, items, cache, lookups) ==
    IF i > Len(org.nodePools)
    THEN [pc |-> "return", i |-> i, items |-> items, lookups |-> lookups]
    ELSE LET pool == org.nodePools[i]
             cached == cache[pool.size]
         IN IF cacheFresh(cached)
            THEN poolLoop(org, i + 1, pushItem(items, pool, cacheHit(cached)),
                          cache,
                          Append(lookups,
                                 Lookup(pool.size, "hit", cacheHit(cached))))
            ELSE [pc |-> "fetch", i |-> i, items |-> items,
                  lookups |-> lookups]

\* calculateOrgCost(org) up to its first await of the provider, or to its
\* return
calculateOrgCost(o, org) ==
    IF notBillable(org)
    THEN [pc |-> "return", i |-> 0, items |-> << >>, lookups |-> << >>,
          result |-> zeroCost]
    ELSE LET run == poolLoop(org, 1, << >>, priceCache, << >>)
         IN [pc |-> run.pc, i |-> run.i, items |-> run.items,
             lookups |-> run.lookups,
             result |-> IF run.pc = "return"
                        THEN breakdown(o, org, run.items) ELSE NoBreakdown]

\* the calculation in progress that awaits the provider
Awaiting(run) ==
    [pc |-> "fetch", i |-> run.i, items |-> run.items, clean |-> TRUE]

\* the history of a returned breakdown: a calculation during which prices
\* and cache entries stayed as they were becomes the one later breakdowns
\* of the organization are compared with
Baselined(o, clean, result) ==
    IF clean /\ o = BILLED_ORG THEN [valid |-> TRUE, result |-> result]
    ELSE baseline

\* the history of the calculations in progress when a stored entry is
\* replaced: they no longer see the entries they began with
Marked(cs, replaced) ==
    IF replaced THEN [tid \in TaskIds |-> [cs[tid] EXCEPT !.clean = FALSE]]
    ELSE cs

\* calculateOrgCost of task tid returns `result`: to the caller of
\* getOrgBilling, or to the Promise.all of getFleetBilling, which resolves
\* with the last of its calculations
Returns(tid, result, replaced) ==
    LET o == tid[1]
        results == [fleet.results EXCEPT ![o] = result]
        done == fleet.done \cup {o}
    IN /\ calcs' = Marked([calcs EXCEPT ![tid] = NoCalc], replaced)
       /\ baseline' = IF replaced THEN NoBaseline
                      ELSE Baselined(o, calcs[tid].clean, result)
       /\ IF tid[2] = "org"
          THEN /\ billed' = [NoBilled EXCEPT !.kind = "org", !.org = o,
                                             !.ok = TRUE, !.result = result]
               /\ UNCHANGED fleet
          ELSE IF ~fleet.active
          THEN billed' = NoBilled /\ UNCHANGED fleet
          ELSE IF done = {fleetOrgs[i] : i \in 1..Len(fleetOrgs)}
          THEN /\ billed' = fleetBilling([i \in 1..Len(fleetOrgs) |->
                                            results[fleetOrgs[i]]])
               /\ fleet' = NoFleet
          ELSE /\ billed' = NoBilled
               /\ fleet' = [fleet EXCEPT !.results = results, !.done = done]

\* calculateOrgCost of task tid throws: getOrgBilling throws, or the
\* Promise.all of getFleetBilling rejects at once while its other
\* calculations run on
Throws(tid) ==
    /\ calcs' = [calcs EXCEPT ![tid] = NoCalc]
    /\ UNCHANGED baseline
    /\ IF tid[2] = "org"
       THEN /\ billed' = [NoBilled EXCEPT !.kind = "org", !.org = tid[1]]
            /\ UNCHANGED fleet
       ELSE IF fleet.active
       THEN billed' = [NoBilled EXCEPT !.kind = "fleet"] /\ fleet' = NoFleet
       ELSE billed' = NoBilled /\ UNCHANGED fleet

\* getDropletPricing returns to getCachedPricing: the matching size is
\* stored and returned, a size the list lacks is returned as null and not
\* stored; the node-pool loop then goes on to its next await or to the
\* return of calculateOrgCost
calculateOrgCost_getDropletPricing(tid) ==
    /\ calcs[tid].pc = "fetch"
    /\ LET o == tid[1]
           task == calcs[tid]
           pool == orgs[o].nodePools[task.i]
           data == getDropletPricing(pool.size)
           cache == cacheStore(priceCache, pool.size, data)
           run == poolLoop(orgs[o], task.i + 1,
                           pushItem(task.items, pool, data), cache,
                           << Lookup(pool.size,
                                     IF data # NoPricing THEN "fetched"
                                     ELSE "notFound", data) >>)
           replaced == priceCache[pool.size].has
                            /\ cache[pool.size] # priceCache[pool.size]
       IN /\ priceCache' = cache
          /\ priced' = run.lookups
          /\ IF run.pc = "fetch"
             THEN /\ calcs' = Marked([calcs EXCEPT ![tid] =
                                        [task EXCEPT !.i = run.i,
                                                     !.items = run.items]],
                                     replaced)
                  /\ baseline' = IF replaced THEN NoBaseline ELSE baseline
                  /\ upstream' = 1
                  /\ billed' = NoBilled
                  /\ UNCHANGED fleet
             ELSE /\ Returns(tid, breakdown(o, orgs[o], run.items), replaced)
                  /\ upstream' = 0
    /\ UNCHANGED <<orgs, markupPercent, sizes, billingCalls, now>>
    /\ UNCHANGED <<clusterVars, watchVars>>

\* the request of getDropletPricing fails (axios throws): the exception
\* leaves getCachedPricing and calculateOrgCost
calculateOrgCost_getDropletPricingThrows(tid) ==
    /\ calcs[tid].pc = "fetch"
    /\ priced' = << Lookup(orgs[tid[1]].nodePools[calcs[tid].i].size,
                           "threw", NoPricing) >>
    /\ Throws(tid)
    /\ upstream' = 0
    /\ UNCHANGED <<orgs, markupPercent, sizes, billingCalls, now, priceCache>>
    /\ UNCHANGED <<clusterVars, watchVars>>

\* ------------------------------------------------------- the billing calls
\* getOrgBilling(orgId): reads the organization and calculates its cost
getOrgBilling(o) ==
    /\ billingCalls < MaxBillingCalls
    /\ billingCalls' = billingCalls + 1
    /\ calcs[<<o, "org">>].pc = "idle"
    /\ LET run == calculateOrgCost(o, orgs[o])
       IN /\ priced' = run.lookups
          /\ IF run.pc = "fetch"
             THEN /\ calcs' = [calcs EXCEPT ![<<o, "org">>] = Awaiting(run)]
                  /\ upstream' = 1
                  /\ billed' = NoBilled
                  /\ UNCHANGED baseline
             ELSE /\ billed' = [NoBilled EXCEPT !.kind = "org", !.org = o,
                                    !.ok = TRUE, !.result = run.result]
                  /\ baseline' = Baselined(o, TRUE, run.result)
                  /\ upstream' = 0
                  /\ UNCHANGED calcs
    /\ UNCHANGED <<orgs, markupPercent, sizes, now, priceCache, fleet>>
    /\ UNCHANGED <<clusterVars, watchVars>>

\* the returns of getCachedPricing in the calculations getFleetBilling
\* starts, in the order of the organizations
RECURSIVE fleetLookups(_, _)
fleetLookups(runs, queried) ==
    IF queried = << >> THEN << >>
    ELSE runs[Head(queried)].lookups \o fleetLookups(runs, Tail(queried))

\* getFleetBilling(): queries the organizations that have a cluster and
\* starts one calculation for each, all in the same turn
getFleetBilling ==
    LET queried == {fleetOrgs[i] : i \in 1..Len(fleetOrgs)}
        runs == [o \in OrgIds |-> calculateOrgCost(o, orgs[o])]
        atOnce == {o \in queried : runs[o].pc = "return"}
        results == [o \in OrgIds |->
                        IF o \in atOnce THEN runs[o].result ELSE NoBreakdown]
    IN /\ billingCalls < MaxBillingCalls
       /\ billingCalls' = billingCalls + 1
       /\ ~fleet.active
       /\ \A o \in OrgIds : calcs[<<o, "fleet">>].pc = "idle"
       /\ calcs' = [tid \in TaskIds |->
                        IF tid[2] = "fleet" /\ tid[1] \in queried \ atOnce
                        THEN Awaiting(runs[tid[1]]) ELSE calcs[tid]]
       /\ baseline' = Baselined(BILLED_ORG, BILLED_ORG \in atOnce,
                                results[BILLED_ORG])
       /\ IF atOnce = queried
          THEN /\ billed' = fleetBilling([i \in 1..Len(fleetOrgs) |->
                                            results[fleetOrgs[i]]])
               /\ UNCHANGED fleet
          ELSE /\ billed' = NoBilled
               /\ fleet' = [active |-> TRUE, done |-> atOnce,
                            results |-> results]
       /\ priced' = fleetLookups(runs, fleetOrgs)
       /\ upstream' = Cardinality(queried \ atOnce)
       /\ UNCHANGED <<orgs, markupPercent, sizes, now, priceCache>>
       /\ UNCHANGED <<clusterVars, watchVars>>

\* ------------------------------------------------------------ environment
\* prices or cache entries are no longer what the calculations in progress
\* and the breakdowns returned so far have seen
Disturbed ==
    /\ calcs' = [tid \in TaskIds |-> [calcs[tid] EXCEPT !.clean = FALSE]]
    /\ baseline' = NoBaseline

\* time passes (Date.now() grows)
Tick ==
    /\ now < MaxTicks * TickMs
    /\ now' = now + TickMs
    /\ IF \E sl \in Slugs :
            /\ priceCache[sl].has
            /\ now - priceCache[sl].ts < CACHE_TTL
            /\ now' - priceCache[sl].ts >= CACHE_TTL
       THEN Disturbed
       ELSE UNCHANGED <<calcs, baseline>>
    /\ billed' = NoBilled /\ priced' = << >> /\ upstream' = 0
    /\ UNCHANGED <<orgs, markupPercent, sizes, billingCalls, priceCache, fleet>>
    /\ UNCHANGED <<clusterVars, watchVars>>

\* the provider changes its size list: it raises the price of the smaller
\* size, then drops that size
sizesChange ==
    /\ sizes[CHANGING_SLUG] # 0
    /\ sizes' = [sizes EXCEPT ![CHANGING_SLUG] = IF @ = 20 THEN 40 ELSE 0]
    /\ Disturbed
    /\ billed' = NoBilled /\ priced' = << >> /\ upstream' = 0
    /\ UNCHANGED <<orgs, markupPercent, billingCalls, now, priceCache, fleet>>
    /\ UNCHANGED <<clusterVars, watchVars>>

\* ---------------------------------------------------- the records billed
billedPool(id, sl, n) ==
    [poolId |-> id, name |-> "workers", size |-> sl, count |-> n,
     autoScale |-> TRUE]

\* the cluster records an organization can have when it is billed
BillingRecords(o) ==
    { DoksNull,
      [DoksNull EXCEPT !.isNull = FALSE, !.status = "running", !.ha = TRUE,
                       !.nodePools = << billedPool(1, "s-2vcpu-4gb", 2) >>],
      [DoksNull EXCEPT !.isNull = FALSE, !.clusterId = o, !.status = "error",
                       !.ha = TRUE, !.provisionError = PROVIDER_ERROR,
                       !.nodePools = << billedPool(1, "s-2vcpu-4gb", 2) >>],
      [DoksNull EXCEPT !.isNull = FALSE, !.clusterId = o, !.status = "running",
                       !.nodePools = << billedPool(1, "s-2vcpu-4gb", 2) >>],
      [DoksNull EXCEPT !.isNull = FALSE, !.clusterId = o, !.status = "running",
                       !.ha = TRUE,
                       !.nodePools = << billedPool(1, "s-2vcpu-4gb", 2),
                                        billedPool(2, "s-4vcpu-8gb", 3) >>] }

\* the fleets billed: the first organization has any of the records, the
\* others have a running HA cluster of one pool
BilledFleets ==
    { [o \in OrgIds |-> IF o = 1 THEN first
                        ELSE [DoksNull EXCEPT
                                !.isNull = FALSE, !.clusterId = o,
                                !.status = "running", !.ha = TRUE,
                                !.nodePools =
                                    << billedPool(1, "s-4vcpu-8gb", 3) >>]] :
        first \in BillingRecords(1) }

\* the percentages MARKUP_PERCENT is configured with: the default, and one
\* whose hundredth is a binary fraction
MarkupPercents == {0, 50}


\* ====================================================================
\* The build event watcher (src/monitor/handler/watchTaskRuns.js)
\*
\* The Kubernetes watch is the environment: watch.watch(...) either returns
\* a handle and the subscription is open, or throws; an open subscription
\* delivers the events of the namespace once each in the order they
\* occurred, those that exist when it opens included, and ends by calling
\* the error callback once; abort() either cancels the subscription
\* silently, cancels it and has the error callback called, or throws and
\* cancels nothing.
\*
\* Subscriptions have no identity beyond their state, so the open ones form
\* a bag; `held` marks the one whose handle watchRequest stores.  A handle
\* outlives its subscription: watchRequest stays set when the subscription
\* ends.
\* ====================================================================
EventIds == 1..MaxBuildEvents

SECOND == 1000

\* `setTimeout(startWatching, 2000)` in the error callback
RETRY_RUNNING == 2000

\* `setTimeout(startWatching, 1000)` in the catch block of startWatching
RETRY_ESTABLISHING == 1000

\* the reasons the event callback acts on
REASONS ==
    {"Failed", "Succeeded", "Error", "Started", "Running",
     "TaskRunCancelled", "TaskRunTimeout", "TaskRunImagePullFailed"}

\* the object getTaskRun resolves to.  `eventlistener` are the
\* dash-delimited segments of the label triggers.tekton.dev/eventlistener,
\* << >> when the TaskRun has no such label; `params` maps the names of
\* spec.params to their values, "" for a parameter that is not given
TaskRun(eventlistener, params) ==
    [found |-> TRUE, labels |-> TRUE, eventlistener |-> eventlistener,
     hasParams |-> TRUE, params |-> params]

\* the parameters of the TaskRun of a build from GitHub
GithubParams ==
    [githubpat |-> "ghp_1", gitlabpat |-> "", bitbucketpat |-> "",
     gitrepourl |-> "https://github.com/hanzoai/paas.git",
     gitrevision |-> "4f2a9c1", gitreponame |-> "hanzoai/paas",
     gitlabprojectid |-> ""]

\* getTaskRun resolves to null: the request failed and the error is logged
NoTaskRun == [TaskRun(<< >>, GithubParams) EXCEPT !.found = FALSE]

\* what a run of the event callback does: whether it looks the TaskRun up,
\* the telemetry post it sends, whether it calls reportBackupCommitStatus,
\* the commit status requests sent one after the other, the errors it
\* logs, and whether the promise it leaves behind is rejected with no
\* handler
NoEffects ==
    [called |-> FALSE,
     lookup |-> FALSE,
     telemetry |-> [containerSlug |-> "", status |-> ""],
     notified |-> FALSE,
     commit |-> << >>,
     logged |-> {},
     unhandled |-> FALSE]

\* `eventListenerName.split("-")[2]`, "" for undefined
containerSlug(eventListenerName) ==
    IF Len(eventListenerName) >= 3 THEN eventListenerName[3] ELSE ""

status_whole(reason) == reason

\* `event.reason?.replace("TaskRun", "")`
status(reason) ==
    CASE reason = "TaskRunCancelled" -> "Cancelled"
      [] reason = "TaskRunTimeout" -> "Timeout"
      [] reason = "TaskRunImagePullFailed" -> "ImagePullFailed"
      [] reason = "TaskRun" -> ""
      [] OTHER -> reason

isTerminal_all(reason) == reason \in REASONS

\* the reasons reportBackupCommitStatus is called for
isTerminal(reason) ==
    reason \in {"Succeeded", "Failed", "Error", "TaskRunCancelled",
                "TaskRunTimeout", "TaskRunImagePullFailed"}

\* no git parameters: extractGitParams returns null
NoGitParams ==
    [provider |-> "", pat |-> "", repoUrl |-> "", revision |-> "",
     repoName |-> "", projectId |-> ""]

extractGitParams_lastToken(taskRunObj) ==
    LET paramMap == taskRunObj.params
        found(provider, pat) ==
            [provider |-> provider, pat |-> pat,
             repoUrl |-> paramMap.gitrepourl,
             revision |-> paramMap.gitrevision,
             repoName |-> paramMap.gitreponame,
             projectId |-> paramMap.gitlabprojectid]
    IN IF ~taskRunObj.hasParams THEN NoGitParams
       ELSE IF paramMap.bitbucketpat # ""
       THEN found("bitbucket", paramMap.bitbucketpat)
       ELSE IF paramMap.gitlabpat # ""
       THEN found("gitlab", paramMap.gitlabpat)
       ELSE IF paramMap.githubpat # ""
       THEN found("github", paramMap.githubpat)
       ELSE NoGitParams

\* extractGitParams(taskRunObj): the provider is that of the first token
\* parameter that is set
extractGitParams(taskRunObj) ==
    LET paramMap == taskRunObj.params
        found(provider, pat) ==
            [provider |-> provider, pat |-> pat,
             repoUrl |-> paramMap.gitrepourl,
             revision |-> paramMap.gitrevision,
             repoName |-> paramMap.gitreponame,
             projectId |-> paramMap.gitlabprojectid]
    IN IF ~taskRunObj.hasParams THEN NoGitParams
       ELSE IF paramMap.githubpat # ""
       THEN found("github", paramMap.githubpat)
       ELSE IF paramMap.gitlabpat # ""
       THEN found("gitlab", paramMap.gitlabpat)
       ELSE IF paramMap.bitbucketpat # ""
       THEN found("bitbucket", paramMap.bitbucketpat)
       ELSE NoGitParams

noRevision_empty(gitParams) ==
    gitParams = NoGitParams \/ gitParams.revision = ""

\* `!gitParams || !gitParams.revision || gitParams.revision === "N/A"`
noRevision(gitParams) ==
    \/ gitParams = NoGitParams
    \/ gitParams.revision = ""
    \/ gitParams.revision = "N/A"

isSuccess_succeeded(reason) == reason = "Succeeded"

\* `reason === "Succeeded" || reason === "TaskRunCancelled"`
isSuccess(reason) == reason = "Succeeded" \/ reason = "TaskRunCancelled"

\* reportBackupCommitStatus(taskRunObj, reason): the requests it sends to
\* the source-control providers, one after the other.  The three post
\* functions return without a request when the token, the repository or
\* the commit is missing, and send one otherwise; a request that fails is
\* logged by the function that sent it.
reportBackupCommitStatus(taskRunObj, reason) ==
    LET gitParams == extractGitParams(taskRunObj)
        request(provider, pat, repo, sha, state) ==
            IF pat = "" \/ repo = "" \/ sha = "" THEN << >>
            ELSE << [provider |-> provider, pat |-> pat, repo |-> repo,
                     sha |-> sha, state |-> state] >>
        \* the URL without `https://github.com/`, `.git` and a final `/`
        ownerRepo(repoUrl) ==
            CASE repoUrl = "https://github.com/hanzoai/paas.git" ->
                    "hanzoai/paas"
              [] repoUrl = "https://github.com/hanzoai/" -> "hanzoai"
              [] OTHER -> repoUrl
        \* `String(projectId).replace(/\//g, "%2F")`
        encodedProjectId(projectId) ==
            CASE projectId = "hanzoai/paas" -> "hanzoai%2Fpaas"
              [] OTHER -> projectId
        \* `ownerRepo.includes("/")`
        includesSlash(name) == name \in {"hanzoai/paas"}
        postGithubCommitStatus(pat, repoUrl, sha, state) ==
            IF ~includesSlash(ownerRepo(repoUrl)) THEN << >>
            ELSE request("github", pat, ownerRepo(repoUrl), sha, state)
        postGitlabCommitStatus(pat, projectId, sha, state) ==
            request("gitlab", pat, encodedProjectId(projectId), sha, state)
        postBitbucketCommitStatus(pat, repoFullName, sha, state) ==
            request("bitbucket", pat, repoFullName, sha, state)
    IN IF noRevision(gitParams) THEN << >>
       ELSE CASE gitParams.provider = "github" ->
                    postGithubCommitStatus(
                        gitParams.pat, gitParams.repoUrl, gitParams.revision,
                        IF isSuccess(reason) THEN "success" ELSE "failure")
              [] gitParams.provider = "gitlab" ->
                    postGitlabCommitStatus(
                        gitParams.pat,
                        IF gitParams.projectId # "" THEN gitParams.projectId
                        ELSE gitParams.repoName,
                        gitParams.revision,
                        IF isSuccess(reason) THEN "success" ELSE "failed")
              [] gitParams.provider = "bitbucket" ->
                    postBitbucketCommitStatus(
                        gitParams.pat, gitParams.repoName, gitParams.revision,
                        IF isSuccess(reason) THEN "SUCCESSFUL" ELSE "FAILED")

\* the event callback and what follows the lookup it starts.  `old` is
\* `eventTime && eventTime < now`; taskRunObj is what getTaskRun resolves
\* to; `failing` are the requests, of the telemetry post and the commit
\* status request, that fail if they are sent.  The TypeError of reading a
\* label of a TaskRun without labels is thrown in the `.then` callback, whose
\* promise has no handler.
callback(old, reason, taskRunObj, failing) ==
    LET returned == [NoEffects EXCEPT !.called = TRUE]
        looked == [returned EXCEPT !.lookup = TRUE]
        eventListenerName == taskRunObj.eventlistener
        post == IF containerSlug(eventListenerName) # ""
                THEN [containerSlug |-> containerSlug(eventListenerName),
                      status |-> status(reason)]
                ELSE NoEffects.telemetry
        commit == IF isTerminal(reason)
                  THEN reportBackupCommitStatus(taskRunObj, reason)
                  ELSE << >>
    IN IF old \/ reason \notin REASONS THEN returned
       ELSE IF ~taskRunObj.found
       THEN [looked EXCEPT !.logged = {"getTaskRun"}]
       ELSE IF ~taskRunObj.labels
       THEN [looked EXCEPT !.unhandled = TRUE]
       ELSE IF eventListenerName = << >> THEN looked
       ELSE [looked EXCEPT
                !.telemetry = post,
                !.notified = isTerminal(reason),
                !.commit = commit,
                !.logged =
                    {f \in failing :
                        \/ f = "telemetry" /\ post # NoEffects.telemetry
                        \/ f = "commit" /\ commit # << >>}]

\* the TaskRuns the event callback is observed on: every combination of
\* an event listener label, the three tokens, a revision and the names of
\* the repository; a TaskRun without labels and one without parameters
TaskRunObjs ==
    LET listeners == { << >>, <<"github", "listener">>,
                       <<"github", "listener", "">>,
                       <<"github", "listener", "lkv0ier4">>,
                       <<"gitlab", "listener", "p3x9", "2">> }
        repos == { <<"", "", "">>,
                   <<"https://github.com/hanzoai/paas.git", "hanzoai/paas",
                     "42">>,
                   <<"https://github.com/hanzoai/", "hanzoai/paas", "">> }
        params == { [githubpat |-> gh, gitlabpat |-> gl, bitbucketpat |-> bb,
                     gitrepourl |-> repo[1], gitrevision |-> rev,
                     gitreponame |-> repo[2], gitlabprojectid |-> repo[3]] :
                        gh \in {"", "ghp_1"}, gl \in {"", "glpat_2"},
                        bb \in {"", "bbp_3"}, rev \in {"", "N/A", "4f2a9c1"},
                        repo \in repos }
        labelled == { TaskRun(l, p) : l \in listeners, p \in params }
                        \cup { [TaskRun(l, GithubParams) EXCEPT
                                    !.hasParams = FALSE] : l \in listeners }
    IN labelled \cup {NoTaskRun}
                \cup {[TaskRun(<< >>, GithubParams) EXCEPT !.labels = FALSE]}

\* no event callback is observed by itself
NoDelivery == [old |-> FALSE, reason |-> "", taskRunObj |-> NoTaskRun]

\* the event callback runs for the event observed
eventDelivered ==
    /\ \E failing \in SUBSET {"telemetry", "commit"} :
            effects' = callback(delivery.old, delivery.reason,
                                delivery.taskRunObj, failing)
    /\ UNCHANGED <<watchRequest, subs, timers, clock, events, wanted,
                   delivery>>
    /\ UNCHANGED <<clusterVars, billingVars>>

\* no event under this id
NoEvent ==
    [occurred |-> FALSE, reason |-> "", taskRun |-> NoTaskRun,
     stamped |-> FALSE, eventTime |-> 0, posted |-> FALSE,
     failed |-> FALSE, owed |-> FALSE, pending |-> FALSE, issued |-> 0]

\* the events that occur: <<reason, event listener of the TaskRun, whether
\* the event has a lastTimestamp or firstTimestamp>>
EventKinds ==
    { <<"Succeeded", <<"github", "listener", "lkv0ier4">>, TRUE>>,
      <<"TaskRunCancelled", <<"github", "listener", "lkv0ier4">>, FALSE>>,
      <<"Pulling", <<"github", "listener", "lkv0ier4">>, TRUE>>,
      <<"Failed", << >>, TRUE>> }

\* the subscription startWatching opens: `now` is the time it takes before
\* it calls watch.watch, `by` tells whether watchBuildEvents or a retry
\* timer ran it
Subscription(by) ==
    [state |-> "active", since |-> clock, by |-> by, delivered |-> 0,
     held |-> TRUE]

\* the open subscriptions, none of which is the one watchRequest stores
Unheld(open) ==
    LET each == BagToSet(open)
    IN [sub \in {[x EXCEPT !.held = FALSE] : x \in each} |->
            CopiesIn(sub, open) + CopiesIn([sub EXCEPT !.held = TRUE], open)]

\* the number of subscriptions that are open and deliver events
Active(open) ==
    BagCardinality([sub \in {x \in BagToSet(open) : x.state = "active"} |->
                        CopiesIn(sub, open)])

\* variant: the filter applies on the first connection only
tooOld_firstConnection(sub, event) ==
    sub.by = "start" /\ event.stamped /\ event.eventTime < sub.since

\* `if (eventTime && eventTime < now) return;`
tooOld(sub, event) == event.stamped /\ event.eventTime < sub.since

\* the event callback reaches the telemetry post when the lookup succeeds:
\* the event is not older than the subscription, its reason is one of the
\* vocabulary, and the TaskRun's event listener names a container
posts(sub, event) ==
    /\ ~tooOld(sub, event)
    /\ event.reason \in REASONS
    /\ containerSlug(event.taskRun.eventlistener) # ""

\* startWatching(): takes the time, asks for the subscription and stores
\* its handle; when watch.watch throws, the catch block schedules a retry
\* and watchRequest keeps its value.  `pending` are the timers left when
\* startWatching runs.
startWatching(by, pending, outcome) ==
    IF outcome = "watching"
    THEN /\ subs' = Unheld(subs) (+) SetToBag({Subscription(by)})
         /\ watchRequest' = TRUE
         /\ timers' = pending
    ELSE /\ UNCHANGED <<subs, watchRequest>>
         /\ timers' = pending (+) SetToBag({clock + RETRY_ESTABLISHING})

\* watchBuildEvents(): `if (watchRequest) return;`, else startWatching()
watchBuildEvents ==
    /\ wanted' = TRUE
    /\ IF watchRequest
       THEN UNCHANGED <<watchRequest, subs, timers>>
       ELSE /\ BagCardinality(subs) + BagCardinality(timers) < MaxSubs
            /\ \E outcome \in {"watching", "threw"} :
                    startWatching("start", timers, outcome)
    /\ UNCHANGED <<clock, events>>
    /\ effects' = NoEffects
    /\ UNCHANGED <<clusterVars, billingVars, delivery>>

\* watchRequest.abort(): the subscription the handle belongs to, if it is
\* still open, is cancelled, or cancelled with its error callback still to
\* be called, or left as it is when abort throws; no subscription is the
\* stored one afterwards
abort(open, outcome) ==
    LET mine == {sub \in BagToSet(open) : sub.held /\ sub.state = "active"}
    IN IF outcome = "threw" \/ mine = {} THEN Unheld(open)
       ELSE IF outcome = "notified"
       THEN (open (-) SetToBag(mine))
                (+) SetToBag({[sub EXCEPT !.state = "aborting",
                                          !.held = FALSE] : sub \in mine})
       ELSE open (-) SetToBag(mine)

\* stopWatchingBuildEvents(): aborts the stored handle and clears it, also
\* when abort throws; nothing when no handle is stored
stopWatchingBuildEvents ==
    /\ wanted' = FALSE
    /\ events' = [e \in EventIds |-> [events[e] EXCEPT !.owed = FALSE]]
    /\ IF ~watchRequest
       THEN UNCHANGED <<watchRequest, subs>>
       ELSE /\ watchRequest' = FALSE
            /\ \E outcome \in {"aborted", "notified", "threw"} :
                    subs' = abort(subs, outcome)
    /\ UNCHANGED <<timers, clock>>
    /\ effects' = NoEffects
    /\ UNCHANGED <<clusterVars, billingVars, delivery>>

\* the error callback of a subscription: the subscription has ended (a
\* transport error, the end of the stream, or its cancellation) and a retry
\* is scheduled
errorCallback(sub) ==
    /\ BagIn(sub, subs)
    /\ subs' = subs (-) SetToBag({sub})
    /\ timers' = timers (+) SetToBag({clock + RETRY_RUNNING})
    /\ UNCHANGED <<watchRequest, clock, events, wanted>>
    /\ effects' = NoEffects
    /\ UNCHANGED <<clusterVars, billingVars, delivery>>

\* a retry timer is due and runs startWatching
setTimeout_startWatching(due) ==
    /\ BagIn(due, timers)
    /\ clock >= due
    /\ \E outcome \in {"watching", "threw"} :
            startWatching("timer", timers (-) SetToBag({due}), outcome)
    /\ UNCHANGED <<clock, events, wanted>>
    /\ effects' = NoEffects
    /\ UNCHANGED <<clusterVars, billingVars, delivery>>

eventCallback_failureEnds(sub, e) ==
    /\ BagIn(sub, subs)
    /\ sub.state = "active"
    /\ events[e].occurred
    /\ e = sub.delivered + 1
    /\ \E taskRunObj \in {events[e].taskRun, NoTaskRun},
          failing \in SUBSET {"telemetry", "commit"} :
            effects' = callback(tooOld(sub, events[e]), events[e].reason,
                                taskRunObj, failing)
    /\ subs' = IF effects'.logged # {}
               THEN subs (-) SetToBag({sub})
               ELSE (subs (-) SetToBag({sub}))
                        (+) SetToBag({[sub EXCEPT !.delivered = e]})
    /\ events' = [events EXCEPT
                    ![e].posted =
                        @ \/ effects'.telemetry # NoEffects.telemetry,
                    ![e].failed = @ \/ effects'.logged # {}]
    /\ UNCHANGED <<watchRequest, timers, clock, wanted>>
    /\ UNCHANGED <<clusterVars, billingVars, delivery>>

\* the event callback of a subscription for event e; the lookup of the
\* TaskRun and the requests sent after it touch nothing of the watcher and
\* are part of the step, whether they succeed or fail
eventCallback(sub, e) ==
    /\ BagIn(sub, subs)
    /\ sub.state = "active"
    /\ events[e].occurred
    /\ e = sub.delivered + 1
    /\ subs' = (subs (-) SetToBag({sub}))
                    (+) SetToBag({[sub EXCEPT !.delivered = e]})
    /\ \E taskRunObj \in {events[e].taskRun, NoTaskRun},
          failing \in SUBSET {"telemetry", "commit"} :
            effects' = callback(tooOld(sub, events[e]), events[e].reason,
                                taskRunObj, failing)
    /\ events' = [events EXCEPT
                    ![e].posted =
                        @ \/ effects'.telemetry # NoEffects.telemetry,
                    ![e].failed = @ \/ effects'.logged # {}]
    /\ UNCHANGED <<watchRequest, timers, clock, wanted>>
    /\ UNCHANGED <<clusterVars, billingVars, delivery>>

\* variant: the callback awaits the lookup and sends the requests before
\* it returns
eventCallback_getTaskRun_awaiting(sub, e) ==
    /\ BagIn(sub, subs)
    /\ sub.state = "active"
    /\ events[e].occurred
    /\ e = sub.delivered + 1
    /\ subs' = (subs (-) SetToBag({sub}))
                    (+) SetToBag({[sub EXCEPT !.delivered = e]})
    /\ \E taskRunObj \in {events[e].taskRun, NoTaskRun},
          failing \in SUBSET {"telemetry", "commit"} :
            effects' = callback(tooOld(sub, events[e]), events[e].reason,
                                taskRunObj, failing)
    /\ LET sent == effects'.telemetry # NoEffects.telemetry
       IN events' = [events EXCEPT
                    ![e].posted = @ \/ sent,
                    ![e].failed = @ \/ effects'.logged # {},
                    ![e].issued =
                        IF sent
                        THEN Cardinality({x \in EventIds : events[x].issued > 0}) + 1
                        ELSE @]
    /\ UNCHANGED <<watchRequest, timers, clock, wanted>>
    /\ UNCHANGED <<clusterVars, billingVars, delivery>>

\* the event callback of a subscription for event e, up to its return: it
\* calls getTaskRun for an event that passes the time filter and the
\* vocabulary test, attaches the continuation and returns while the lookup
\* is in flight
eventCallback_getTaskRun(sub, e) ==
    /\ BagIn(sub, subs)
    /\ sub.state = "active"
    /\ events[e].occurred
    /\ e = sub.delivered + 1
    /\ subs' = (subs (-) SetToBag({sub}))
                    (+) SetToBag({[sub EXCEPT !.delivered = e]})
    /\ LET looksUp == ~tooOld(sub, events[e]) /\ events[e].reason \in REASONS
       IN /\ effects' = [NoEffects EXCEPT !.called = TRUE, !.lookup = looksUp]
          /\ events' = [events EXCEPT ![e].pending = looksUp]
    /\ UNCHANGED <<watchRequest, timers, clock, wanted>>
    /\ UNCHANGED <<clusterVars, billingVars, delivery>>

\* the promise of a lookup in flight settles and its continuation runs: the
\* rest of what the callback does for the event, the telemetry post being
\* issued after the posts issued so far
getTaskRun_then(e) ==
    /\ events[e].pending
    /\ \E taskRunObj \in {events[e].taskRun, NoTaskRun},
          failing \in SUBSET {"telemetry", "commit"} :
            effects' = [callback(FALSE, events[e].reason, taskRunObj, failing)
                            EXCEPT !.called = FALSE]
    /\ LET sent == effects'.telemetry # NoEffects.telemetry
       IN events' = [events EXCEPT
                    ![e].pending = FALSE,
                    ![e].posted = @ \/ sent,
                    ![e].failed = @ \/ effects'.logged # {},
                    ![e].issued =
                        IF sent
                        THEN Cardinality({x \in EventIds : events[x].issued > 0}) + 1
                        ELSE @]
    /\ UNCHANGED <<watchRequest, subs, timers, clock, wanted>>
    /\ UNCHANGED <<clusterVars, billingVars, delivery>>

\* a build event occurs in the namespace, stamped or not with the time; it
\* is at most the `most`-th one
eventOccurs(kind, most) ==
    LET e == Cardinality({x \in EventIds : events[x].occurred}) + 1
    IN /\ e \in EventIds
       /\ e <= most
       /\ events' = [events EXCEPT ![e] =
                        [occurred |-> TRUE, reason |-> kind[1],
                         taskRun |-> TaskRun(kind[2], GithubParams),
                         stamped |-> kind[3],
                         eventTime |-> clock, posted |-> FALSE,
                         failed |-> FALSE, owed |-> wanted,
                         pending |-> FALSE, issued |-> 0]]
       /\ UNCHANGED <<watchRequest, subs, timers, clock, wanted>>
       /\ effects' = NoEffects
       /\ UNCHANGED <<clusterVars, billingVars, delivery>>

\* a second passes; the event loop is idle, so the timers that are due have
\* fired
secondPasses ==
    /\ clock < (MaxSeconds + 1) * SECOND
    /\ \A due \in BagToSet(timers) : due > clock
    /\ clock' = clock + SECOND
    /\ UNCHANGED <<watchRequest, subs, timers, events, wanted>>
    /\ effects' = NoEffects
    /\ UNCHANGED <<clusterVars, billingVars, delivery>>

\* ========================================================== specifications
\* the billing module before any call: nothing cached, nothing in progress
BillingIdle ==
    /\ sizes = [sl \in Slugs |-> 20]
    /\ billingCalls = 0
    /\ now = 0
    /\ priceCache = [sl \in Slugs |-> NoEntry]
    /\ calcs = [tid \in TaskIds |-> NoCalc]
    /\ fleet = NoFleet
    /\ upstream = 0
    /\ billed = NoBilled
    /\ priced = << >>
    /\ baseline = NoBaseline

\* the watcher module after load: `var watchRequest = null`
WatchIdle ==
    /\ watchRequest = FALSE
    /\ subs = EmptyBag
    /\ timers = EmptyBag
    /\ clock = SECOND
    /\ events = [e \in EventIds |-> NoEvent]
    /\ wanted = FALSE
    /\ effects = NoEffects

\* the lifecycle controller before any request
ClusterInit ==
    /\ doks = DoksNull
    /\ cloud = [c \in ClusterIds |-> NoCluster]
    /\ fresh = [cluster |-> 1, pool |-> 1]
    /\ inflight = EmptyBag
    /\ arrived = 0
    /\ resp = NoResp
    /\ onlyPools = TRUE
    /\ usage = << >>

\* the records no billing call is made for
NotBilled ==
    /\ orgs = [o \in OrgIds |-> DoksNull]
    /\ markupPercent = 0

Init ==
    /\ ClusterInit
    /\ NotBilled
    /\ BillingIdle
    /\ WatchIdle
    /\ delivery = NoDelivery
    /\ usageEndpoint = ""

Next ==
    \/ \E body \in ProvisionBodies : provision_getOneById(body)
    \/ \E req \in InFlight : provision_markProvisioning(req)
    \/ \E req \in InFlight : provision_createDOKSCluster(req)
    \/ \E req \in InFlight : provision_updateOrg(req)
    \/ \E req \in InFlight : provision_catch(req)
    \/ status_getOneById
    \/ \E req \in InFlight : status_getDOKSCluster(req)
    \/ \E req \in InFlight : status_updateCache(req)
    \/ \E body \in AddPoolBodies : addPool_getOneById(body)
    \/ \E req \in InFlight : addPool_addNodePool(req)
    \/ \E req \in InFlight : addPool_updateCache(req)
    \/ \E body \in UpdatePoolBodies : updatePool_getOneById(body)
    \/ \E req \in InFlight : updatePool_updateNodePool(req)
    \/ \E req \in InFlight : updatePool_updateCache(req)
    \/ \E body \in DeletePoolBodies : deletePool_getOneById(body)
    \/ \E req \in InFlight : deletePool_deleteNodePool(req)
    \/ \E req \in InFlight : deletePool_updateCache(req)
    \/ upgradeHA_getOneById
    \/ \E req \in InFlight : upgradeHA_upgradeToHA(req)
    \/ \E req \in InFlight : upgradeHA_updateCache(req)
    \/ \E body \in DeleteClusterBodies : deleteCluster_getOneById(body)
    \/ \E req \in InFlight : deleteCluster_markDeleting(req)
    \/ \E req \in InFlight : deleteCluster_deleteDOKSCluster(req)
    \/ \E req \in InFlight : deleteCluster_clear(req)
    \/ \E c \in ClusterIds : cloudClusterRunning(c)

Spec == Init /\ [][Next]_vars

\* a few provision requests and a client that keeps polling the status,
\* with no other request: the provider finishes every cluster it has begun, polls
\* keep being issued, the provider keeps answering them, and a handler
\* whose update is due makes it
PollingNext ==
    \/ /\ arrived < MaxProvisions
       /\ \E body \in ProvisionBodies : provision_getOneById(body)
    \/ \E req \in InFlight : provision_markProvisioning(req)
    \/ \E req \in InFlight : provision_createDOKSCluster(req)
    \/ \E req \in InFlight : provision_updateOrg(req)
    \/ \E req \in InFlight : provision_catch(req)
    \/ poll_getOneById
    \/ \E req \in InFlight : status_getDOKSCluster(req)
    \/ \E req \in InFlight : status_updateCache(req)
    \/ \E c \in ClusterIds : cloudClusterRunning(c)

SpecPolling ==
    /\ Init
    /\ [][PollingNext]_vars
    /\ \A c \in ClusterIds : WF_vars(cloudClusterRunning(c))
    /\ WF_vars(poll_getOneById)
    /\ SF_vars(\E req \in InFlight :
                    status_getDOKSCluster(req) /\ resp'.code # 500)
    /\ WF_vars(\E req \in InFlight : status_updateCache(req))

\* the requests whose handlers track usage, with and without a usage
\* endpoint configured
UsageInit ==
    /\ ClusterInit
    /\ NotBilled
    /\ BillingIdle
    /\ WatchIdle
    /\ delivery = NoDelivery
    /\ usageEndpoint \in {"", "https://usage.hanzo.ai/v1/events"}

UsageNext ==
    \/ \E body \in ProvisionBodies : provision_getOneById(body)
    \/ \E req \in InFlight : provision_markProvisioning(req)
    \/ \E req \in InFlight : provision_createDOKSCluster(req)
    \/ \E req \in InFlight : provision_updateOrg(req)
    \/ \E req \in InFlight : provision_catch(req)
    \/ \E body \in AddPoolBodies : addPool_getOneById(body)
    \/ \E req \in InFlight : addPool_addNodePool(req)
    \/ \E req \in InFlight : addPool_updateCache(req)
    \/ upgradeHA_getOneById
    \/ \E req \in InFlight : upgradeHA_upgradeToHA(req)
    \/ \E req \in InFlight : upgradeHA_updateCache(req)
    \/ \E body \in DeleteClusterBodies : deleteCluster_getOneById(body)
    \/ \E req \in InFlight : deleteCluster_markDeleting(req)
    \/ \E req \in InFlight : deleteCluster_deleteDOKSCluster(req)
    \/ \E req \in InFlight : deleteCluster_clear(req)
    \/ \E c \in ClusterIds : cloudClusterRunning(c)

SpecUsage == UsageInit /\ [][UsageNext]_vars

BillingInit ==
    /\ ClusterInit
    /\ BillingIdle
    /\ WatchIdle
    /\ delivery = NoDelivery
    /\ usageEndpoint = ""
    /\ orgs \in BilledFleets
    /\ markupPercent \in MarkupPercents
    /\ markupPercent = 0 =>
            ~notBillable(orgs[BILLED_ORG]) /\ ~orgs[BILLED_ORG].ha

BillingNext ==
    \/ getOrgBilling(BILLED_ORG)
    \/ getFleetBilling
    \/ \E tid \in TaskIds : calculateOrgCost_getDropletPricing(tid)
    \/ \E tid \in TaskIds : calculateOrgCost_getDropletPricingThrows(tid)
    \/ Tick
    \/ sizesChange

SpecBilling == BillingInit /\ [][BillingNext]_vars

WatchInit ==
    /\ ClusterInit
    /\ NotBilled
    /\ BillingIdle
    /\ WatchIdle
    /\ delivery = NoDelivery
    /\ usageEndpoint = ""

WatchNext ==
    \/ watchBuildEvents
    \/ stopWatchingBuildEvents
    \/ \E sub \in BagToSet(subs) : errorCallback(sub)
    \/ \E due \in BagToSet(timers) : setTimeout_startWatching(due)
    \/ \E sub \in BagToSet(subs), e \in EventIds : eventCallback(sub, e)
    \/ \E kind \in EventKinds : eventOccurs(kind, MaxEvents)
    \/ secondPasses

SpecWatch == WatchInit /\ [][WatchNext]_vars

\* one subscription and the events delivered to it within the second it
\* was opened in, whose lookups and requests succeed or fail
DeliverNext ==
    \/ watchBuildEvents
    \/ \E sub \in BagToSet(subs), e \in EventIds : eventCallback(sub, e)
    \/ \E kind \in EventKinds : eventOccurs(kind, MaxBuildEvents)

SpecDeliver == WatchInit /\ [][DeliverNext]_vars

\* the watcher once watchBuildEvents has opened its first subscription, at
\* a time when the namespace has no event yet or has one that occurred the
\* second before; the watcher is never stopped
ReconnectInit ==
    /\ ClusterInit
    /\ NotBilled
    /\ BillingIdle
    /\ delivery = NoDelivery
    /\ usageEndpoint = ""
    /\ effects = NoEffects
    /\ wanted = TRUE
    /\ watchRequest = TRUE
    /\ timers = EmptyBag
    /\ \/ /\ clock = SECOND
          /\ events = [e \in EventIds |-> NoEvent]
       \/ /\ clock = 2 * SECOND
          /\ \E kind \in EventKinds :
                events = [e \in EventIds |->
                    IF e = 1
                    THEN [NoEvent EXCEPT
                            !.occurred = TRUE, !.reason = kind[1],
                            !.taskRun = TaskRun(kind[2], GithubParams),
                            !.stamped = kind[3], !.eventTime = SECOND]
                    ELSE NoEvent]
    /\ subs = SetToBag({Subscription("start")})

\* the subscriptions end and are reopened by the retry timers, and each one
\* is delivered the events of the namespace from the first one on
ReconnectNext ==
    \/ \E sub \in BagToSet(subs) : errorCallback(sub)
    \/ \E due \in BagToSet(timers) : setTimeout_startWatching(due)
    \/ \E sub \in BagToSet(subs), e \in EventIds : eventCallback(sub, e)
    \/ \E kind \in EventKinds : eventOccurs(kind, MaxEvents)
    \/ secondPasses

SpecReconnect == ReconnectInit /\ [][ReconnectNext]_vars

\* one subscription, the events delivered to it and their lookups, each of
\* which settles at a time of its own
DispatchNext ==
    \/ \E sub \in BagToSet(subs), e \in EventIds :
            eventCallback_getTaskRun(sub, e)
    \/ \E e \in EventIds : getTaskRun_then(e)
    \/ \E kind \in EventKinds : eventOccurs(kind, MaxBuildEvents)

SpecDispatch == ReconnectInit /\ [][DispatchNext]_vars

\* the event callback on one event: any reason of the vocabulary or
\* another one, older than the subscription or not, any TaskRun
HandlerInit ==
    /\ ClusterInit
    /\ NotBilled
    /\ BillingIdle
    /\ WatchIdle
    /\ usageEndpoint = ""
    /\ delivery \in [old : BOOLEAN, reason : REASONS \cup {"Pulling"},
                      taskRunObj : TaskRunObjs]

SpecHandler == HandlerInit /\ [][eventDelivered]_vars

\* ====================================================================
\* Properties of the cluster lifecycle controller
\* ====================================================================
PoolKinds == {"addPool", "updatePool", "deletePool"}

\* the handler req takes a step
Stepped(req) == CopiesIn(req, inflight') < CopiesIn(req, inflight)

\* the handler `next` is in flight as the result of this step
Became(next) == CopiesIn(next, inflight') > CopiesIn(next, inflight)

\* a request of this kind with this input arrives in this step (its handler
\* reads the organization)
Arrival(kind, body) ==
    /\ arrived' = arrived + 1
    /\ \/ resp'.kind = kind /\ resp'.body = body
       \/ \E next \in BagToSet(inflight') :
            Became(next) /\ next.kind = kind /\ next.body = body

\* the arriving request is answered at once, without a provider call and
\* without a change of the record or the provider
Rejected(codes) ==
    /\ inflight' = inflight
    /\ resp'.code \in codes /\ resp'.called = {}
    /\ doks' = doks /\ cloud' = cloud

\* C1: in every reachable state of the cached cluster record, status =
\* running implies that clusterId and endpoint are both non-empty.
C1_RunningHasIdAndEndpoint ==
    doks.status = "running" => (doks.clusterId # 0 /\ doks.endpoint # "")

\* C2: a provision request that arrives while the record's status is
\* provisioning, running or deleting is answered 409 at once: it never goes
\* on to the provider and the step changes neither the record nor the
\* provider.
C2_ProvisionRejectedWhileNonError ==
    [][\A body \in ProvisionBodies :
         (Arrival("provision", body)
            /\ doks.status \in {"provisioning", "running", "deleting"})
         => Rejected({409})]_vars

\* C3: a delete-cluster request without confirm=true is rejected when it
\* arrives (400, or 404 when there is no cluster), has made no provider
\* call, and leaves the cached record and the provider as they were,
\* whatever the record's status.
C3_UnconfirmedDeleteRejected ==
    [][\A body \in DeleteClusterBodies :
         (body.confirm # "true" /\ Arrival("deleteCluster", body))
         => Rejected({400, 404})]_vars

\* an unconfirmed delete of an existing cluster was rejected and the record
\* is still there
C3_Witness ==
    /\ resp.kind = "deleteCluster" /\ resp.body.confirm # "true"
    /\ resp.code = 400 /\ resp.called = {}
    /\ doks.clusterId # 0

\* C4: the record becomes absent only in the last step of a confirmed
\* delete request, after the provider's delete call of that request has
\* succeeded (the cluster is gone at the provider); a confirmed delete
\* first writes status deleting without having called the provider, then
\* calls the provider, and clears the record only after that.
C4_ClearedOnlyAfterConfirmedDelete ==
    [][/\ (~doks.isNull /\ doks'.isNull)
            => \E req \in InFlight :
                /\ req.kind = "deleteCluster" /\ req.pc = "clear"
                /\ req.body.confirm = "true"
                /\ "deleteDOKSCluster" \in req.called
                /\ ~cloud[req.org.clusterId].exists
                /\ Stepped(req) /\ resp' = Response(req, 204)
       /\ \A body \in DeleteClusterBodies :
            Arrival("deleteCluster", body) =>
                /\ doks' = doks /\ cloud' = cloud
                /\ \A next \in BagToSet(inflight') :
                    Became(next) => next.pc = "mark" /\ next.called = {}
       /\ \A req \in InFlight :
            (req.kind = "deleteCluster" /\ Stepped(req)) =>
                \/ /\ req.pc = "mark" /\ req.called = {}
                   /\ Became([req EXCEPT !.pc = "call"])
                   /\ doks'.status = "deleting" /\ cloud' = cloud
                \/ /\ req.pc = "call" /\ req.called = {}
                   /\ doks' = doks
                   /\ IF Became([Called(req, "deleteDOKSCluster")
                                    EXCEPT !.pc = "clear"])
                      THEN /\ cloud[req.org.clusterId].exists
                           /\ ~cloud'[req.org.clusterId].exists
                      ELSE /\ cloud' = cloud /\ resp'.code = 500
                           /\ inflight' = inflight (-) SetToBag({req})
                \/ /\ req.pc = "clear"
                   /\ doks'.isNull /\ cloud' = cloud]_vars

\* a confirmed delete has run to its end: the record is absent and the
\* provider was called
C4_Witness ==
    /\ doks.isNull
    /\ resp.kind = "deleteCluster" /\ resp.body.confirm = "true"
    /\ resp.code = 204 /\ resp.called = {"deleteDOKSCluster"}

\* C5: a provision request whose create-cluster call failed ends with the
\* record present, in status error, carrying provisionError, and with no
\* clusterId set.
C5_FailedCreateLeavesError ==
    [][\A req \in InFlight :
         (req.kind = "provision" /\ req.pc = "catch" /\ Stepped(req))
         => /\ ~doks'.isNull
            /\ doks'.status = "error"
            /\ doks'.provisionError # ""
            /\ doks'.clusterId = 0]_vars

\* C6: in every reachable state of the record, status = error implies that
\* provisionError is present and non-empty.
C6_ErrorCarriesProvisionError ==
    doks.status = "error" => doks.provisionError # ""

\* a provision request failed at the provider and left the record in error
C6_Witness ==
    /\ doks.status = "error" /\ doks.provisionError = PROVIDER_ERROR
    /\ resp.kind = "provision" /\ resp.code = 500
    /\ resp.called = {"createDOKSCluster"}

\* C7: an add, scale or delete node-pool request that arrives while the
\* record has no clusterId or a status other than running is answered 400
\* at once, has made no provider call, and the step changes neither the
\* record nor the provider.
C7_PoolRequestRejectedWhenNotRunning ==
    [][(/\ arrived' = arrived + 1
        /\ (doks.clusterId = 0 \/ doks.status # "running")
        /\ \/ resp'.kind \in PoolKinds
           \/ \E next \in BagToSet(inflight') :
                Became(next) /\ next.kind \in PoolKinds)
       => Rejected({400})]_vars

\* a node-pool request was rejected as not ready while a cluster record with
\* a clusterId exists in another status than running
C7_Witness ==
    /\ doks.clusterId # 0 /\ doks.status \in {"provisioning", "error", "deleting"}
    /\ resp.kind \in PoolKinds /\ resp.code = 400 /\ resp.called = {}

\* C8: an HA-upgrade request that arrives at a running cluster whose cached
\* ha is true is answered 409 without a provider call; and no step of an
\* HA-upgrade request changes the cached record except its last one, which
\* sets ha to true after the request's upgradeToHA call returned a cluster
\* with ha = true.
C8_HAOnlyAfterProviderConfirms ==
    [][/\ Arrival("upgradeHA", NoBody) =>
            /\ doks' = doks
            /\ (doks.clusterId # 0 /\ doks.status = "running" /\ doks.ha)
                    => Rejected({409})
       /\ \A req \in InFlight :
            (req.kind = "upgradeHA" /\ Stepped(req) /\ doks' # doks)
            => /\ req.pc = "write" /\ resp' = Response(req, 200)
               /\ req.called = {"upgradeToHA"}
               /\ req.cluster.exists /\ req.cluster.ha
               /\ doks' = [doks EXCEPT !.ha = TRUE, !.isNull = FALSE]]_vars

\* a cluster provisioned without HA was upgraded through the provider, and
\* a further HA upgrade was refused with a conflict
C8_Witness ==
    /\ doks.ha /\ doks.status = "running" /\ doks.region = DEFAULT_REGION
    /\ cloud[doks.clusterId].ha
    /\ resp.kind = "upgradeHA" /\ resp.code = 409 /\ resp.called = {}

\* the node pools the provider holds, over all clusters
CloudPools ==
    { cloud[x[1]].node_pools[x[2]] :
        x \in { y \in ClusterIds \X PoolIds :
                    cloud[y[1]].exists /\ y[2] <= Len(cloud[y[1]].node_pools) } }

\* C9: every node pool at the provider, which holds what the last accepted
\* create, add or update request for it carried, has min_nodes = 1 and
\* max_nodes = max(count * 3, 6) for its current (most recently requested)
\* count.
C9_ScaleBounds ==
    \A p \in CloudPools :
        p.min_nodes = 1 /\ p.max_nodes = MathMax(p.count * 3, 6)

\* no handler is between its first read and its response
Quiescent == InFlight = {}

\* C10: once a set of add, scale and delete node-pool requests on a running
\* cluster has completed, the cached nodePools are exactly the provider's
\* pools of that cluster, each with the provider's count and size.
C10_CacheMatchesProvider ==
    (Quiescent /\ onlyPools /\ doks.status = "running")
    => { [poolId |-> doks.nodePools[i].poolId,
          size |-> doks.nodePools[i].size,
          count |-> doks.nodePools[i].count] : i \in 1..Len(doks.nodePools) }
       = { [poolId |-> p.id, size |-> p.size, count |-> p.count] :
            p \in { cloud[doks.clusterId].node_pools[i] :
                    i \in 1..Len(cloud[doks.clusterId].node_pools) } }

\* ====================================================================
\* Properties of the cost calculator and the pricing cache
\* ====================================================================
\* the entry was fetched less than the TTL before time t
FetchedWithinTTL(entry, t) == entry.has /\ t - entry.ts < CACHE_TTL

\* the size task tid asks the provider for
Awaited(task, tid) == orgs[tid[1]].nodePools[task.i].size

\* in this step getCachedPricing, called by task tid, sends a size-list
\* request to the provider
Sent(tid) ==
    /\ calcs'[tid].pc = "fetch"
    /\ calcs[tid].pc # "fetch" \/ calcs'[tid].i # calcs[tid].i

\* in this step the request task tid awaits is answered, or fails
Answered(tid) ==
    /\ calcs[tid].pc = "fetch"
    /\ calcs'[tid].pc # "fetch" \/ calcs'[tid].i # calcs[tid].i

\* the lookups getCachedPricing returns from in this step
Lookups == {priced'[k] : k \in 1..Len(priced')}

\* a lookup made less than the TTL after the slug's last successful fetch
\* sends no request and returns the stored value; any other lookup sends
\* exactly one request and returns when it is answered
LookupsWithinTTL ==
    /\ \A l \in Lookups :
        l.outcome = "hit" =>
            /\ FetchedWithinTTL(priceCache'[l.slug], now')
            /\ l.data = priceCache'[l.slug].data
    /\ \A tid \in TaskIds :
        Sent(tid) =>
            ~FetchedWithinTTL(priceCache'[Awaited(calcs'[tid], tid)], now')
    /\ upstream' = Cardinality({tid \in TaskIds : Sent(tid)})
    /\ \A tid \in TaskIds :
        Answered(tid) =>
            /\ priced'[1].slug = Awaited(calcs[tid], tid)
            /\ priced'[1].outcome \in {"fetched", "notFound", "threw"}

\* the entry of the slug is the one fetched in this step
Replaced(l) ==
    /\ l.data.slug = l.slug /\ l.data.priceMonthly = sizes[l.slug]
    /\ sizes[l.slug] # 0
    /\ priceCache'[l.slug] = [has |-> TRUE, data |-> l.data, ts |-> now]

\* C11 as stated: a pricing lookup made less than the TTL after the last
\* successful fetch of its slug performs zero upstream calls and returns the
\* stored value; a lookup made once the TTL has elapsed performs exactly one
\* upstream call and replaces the stored entry.
C11_LookupAfterTTLReplaces ==
    [][/\ LookupsWithinTTL
       /\ \A tid \in TaskIds :
            (/\ Answered(tid)
             /\ priceCache[Awaited(calcs[tid], tid)].has
             /\ ~FetchedWithinTTL(priceCache[Awaited(calcs[tid], tid)], now))
                => Replaced(priced'[1])]_vars

\* C11 amended: a pricing lookup made less than the TTL after the last
\* successful fetch of its slug performs zero upstream calls and returns the
\* stored value; a lookup made once the TTL has elapsed performs exactly one
\* upstream call, and replaces the stored entry when that call returns the
\* slug's pricing; when the call fails or the provider no longer lists the
\* slug, every stored entry is left as it was.
C11_LookupAfterTTLReplacesIfFound ==
    [][/\ LookupsWithinTTL
       /\ \A tid \in TaskIds :
            Answered(tid) =>
                IF priced'[1].outcome = "fetched"
                THEN /\ Replaced(priced'[1])
                     /\ \A sl \in Slugs \ {priced'[1].slug} :
                            priceCache'[sl] = priceCache[sl]
                ELSE priceCache' = priceCache]_vars

\* a lookup half a TTL after the fetch of its slug returned the stored
\* value
C11_Witness ==
    \E k \in 1..Len(priced) :
        /\ priced[k].outcome = "hit"
        /\ now - priceCache[priced[k].slug].ts = TickMs
        /\ priced[k].data = priceCache[priced[k].slug].data
        /\ upstream = 0

\* the lookup returns not-found and no entry of the cache changes
ReturnsNotFound(l) ==
    /\ l.outcome = "notFound"
    /\ l.data = NoPricing
    /\ priceCache' = priceCache

\* no entry of the cache stands for a not-found result
NoNotFoundEntry(cache) ==
    \A sl \in Slugs : cache[sl].has => cache[sl].data # NoPricing

\* C12 as stated: a pricing lookup for a slug the provider does not list
\* returns not-found and stores nothing: the cache never holds an entry that
\* stands for a not-found result, and the entries of other slugs are
\* unchanged.  (A lookup whose request fails returns nothing at all.)
C12_NotListedReturnsNotFound ==
    [][/\ \A l \in Lookups :
            (sizes[l.slug] = 0 /\ l.outcome # "threw") => ReturnsNotFound(l)
       /\ NoNotFoundEntry(priceCache')]_vars

\* C12 amended: a pricing lookup that consults the provider (the slug had no
\* entry fetched less than the TTL ago when the lookup was made) for a slug
\* the provider does not list returns not-found and stores nothing: the cache never holds an entry
\* that stands for a not-found result, and the entries already cached are
\* unchanged; a lookup served from an entry fetched less than the TTL ago
\* returns the stored pricing even after the provider dropped the slug.
C12_MissNotListedReturnsNotFound ==
    [][/\ \A l \in Lookups :
            (sizes[l.slug] = 0 /\ l.outcome # "threw") =>
                IF l.outcome = "hit"
                THEN /\ FetchedWithinTTL(priceCache[l.slug], now)
                     /\ l.data = priceCache[l.slug].data
                ELSE ReturnsNotFound(l)
       /\ NoNotFoundEntry(priceCache')]_vars

\* the provider answered a lookup for a slug it does not list while another
\* slug was cached: the lookup returned not-found and the slug has no entry
C12_Witness ==
    /\ priced # << >>
    /\ priced[1].outcome = "notFound"
    /\ sizes[priced[1].slug] = 0
    /\ ~priceCache[priced[1].slug].has
    /\ \E sl \in Slugs \ {priced[1].slug} : priceCache[sl].has

\* the breakdown is the zero-cost one: nothing to pay and no line item
IsZeroCost(result) == result.monthlyTotal = 0 /\ result.items = << >>

\* the sizes of the node pools stored in the record
PoolSizes(org) == {org.nodePools[i].size : i \in 1..Len(org.nodePools)}

\* C13: the cost calculation for a record with no clusterId, or with status
\* error, returns monthlyTotal 0 and an empty item list and performs no
\* pricing lookup, whatever node pools and ha flag the record stores: it
\* returns in the turn of the call, awaits no provider request and leaves
\* the cache and the record as they were.
C13_NotBillableIsFree ==
    [][(/\ billingCalls' = billingCalls + 1
        /\ \/ orgs[BILLED_ORG].clusterId = 0
           \/ orgs[BILLED_ORG].status = "error")
       => /\ calcs'[<<BILLED_ORG, "org">>] = NoCalc
          /\ calcs'[<<BILLED_ORG, "fleet">>] = NoCalc
          /\ \A l \in Lookups : l.slug \notin PoolSizes(orgs[BILLED_ORG])
          /\ priceCache' = priceCache
          /\ orgs' = orgs
          /\ IF billed'.kind = "org"
             THEN /\ billed'.ok /\ billed'.org = BILLED_ORG
                  /\ IsZeroCost(billed'.result)
                  /\ priced' = << >>
                  /\ upstream' = 0
             ELSE orgs[BILLED_ORG].clusterId # 0 =>
                    /\ fleet'.active =>
                        /\ BILLED_ORG \in fleet'.done
                        /\ IsZeroCost(fleet'.results[BILLED_ORG])
                    /\ billed'.kind = "fleet" =>
                        /\ billed'.ok
                        /\ IsZeroCost(billed'.organizations[1])]_vars

\* the cost of a record in status error that has a clusterId, node pools
\* and the ha flag was calculated: nothing to pay, nothing looked up
C13_Witness ==
    /\ billed.kind = "org" /\ billed.ok
    /\ orgs[billed.org].status = "error"
    /\ orgs[billed.org].clusterId # 0
    /\ orgs[billed.org].ha
    /\ orgs[billed.org].nodePools # << >>
    /\ IsZeroCost(billed.result)
    /\ priced = << >>
    /\ upstream = 0

\* the items of the given type, in the order of the breakdown
ItemsOfType(items, type) == SelectSeq(items, LAMBDA it : it.type = type)

\* the line items are those of the record: for every node pool one "nodes"
\* item of unitPrice * count, or none when the provider has dropped the
\* size of the pool, and one HA item of the fixed cost exactly when the
\* record has the ha flag
ItemisedFor(org, items) ==
    LET nodes == ItemsOfType(items, "nodes")
        has == ItemsOfType(items, "ha_control_plane")
    IN /\ Len(items) = Len(nodes) + Len(has)
       /\ Len(has) = IF org.ha THEN 1 ELSE 0
       /\ \A k \in 1..Len(has) : has[k].monthlyTotal = HA_MONTHLY_COST
       /\ \A k \in 1..Len(nodes) : nodes[k].size \in PoolSizes(org)
       /\ \A i \in 1..Len(org.nodePools) :
            LET pool == org.nodePools[i]
                mine == SelectSeq(nodes, LAMBDA it : it.size = pool.size)
            IN /\ Len(mine) <= 1
               /\ Len(mine) = 0 => sizes[pool.size] = 0
               /\ Len(mine) = 1 =>
                    /\ mine[1].count = pool.count
                    /\ mine[1].unitPrice \in {20, 40}
                    /\ mine[1].monthlyTotal = mine[1].unitPrice * pool.count

\* subtotal, markup and monthlyTotal of the breakdown follow from its items
TotalledUp(r) ==
    /\ r.subtotal = sumMonthlyTotal(r.items)
    /\ r.markupPercent = markupPercent
    /\ r.markup * 100 = r.subtotal * markupPercent
    /\ r.monthlyTotal = r.subtotal + r.markup

\* the breakdowns returned in this state, each with its organization
BreakdownsReturned ==
    IF ~billed.ok THEN {}
    ELSE IF billed.kind = "org" THEN {<<billed.org, billed.result>>}
    ELSE {<<fleetOrgs[i], billed.organizations[i]>> :
            i \in 1..Len(billed.organizations)}

\* C14: for a provider-backed, non-error cluster the breakdown has one line
\* item of unitPrice * count for each node pool whose price is found, plus
\* one fixed HA line item (40) exactly when ha is true; subtotal is the sum
\* of the items' monthlyTotal, markup = subtotal * markupPercent / 100 and
\* monthlyTotal = subtotal + markup.
C14_BreakdownItemised ==
    \A b \in BreakdownsReturned :
        (orgs[b[1]].clusterId # 0 /\ orgs[b[1]].status # "error") =>
            /\ b[2].orgId = b[1]
            /\ ItemisedFor(orgs[b[1]], b[2].items)
            /\ TotalledUp(b[2])

\* the breakdown of a running HA cluster of two pools was returned with a
\* markup: two node items, the HA item, and the totals
C14_Witness ==
    /\ billed.kind = "org" /\ billed.ok
    /\ orgs[billed.org].ha
    /\ Len(orgs[billed.org].nodePools) = 2
    /\ Len(billed.result.items) = 3
    /\ billed.result.items[3].monthlyTotal = 40
    /\ billed.result.subtotal = 20 * 2 + 20 * 3 + 40
    /\ billed.result.markup = 70
    /\ billed.result.monthlyTotal = 210

\* C15 as stated: the fleet billing aggregation completes and returns a
\* breakdown for every organization with a cluster even when a pricing
\* lookup fails for a node pool of one organization: no getFleetBilling
\* call ends without its result, and the result has one breakdown per
\* organization and the fleet totals.
C15_FleetBillingTolerant ==
    billed.kind = "fleet" =>
        /\ billed.ok
        /\ Len(billed.organizations) = Len(fleetOrgs)
        /\ billed.summary.totalOrgs = Len(fleetOrgs)

\* C16: two cost calculations on the same unchanged cluster record, with the
\* provider's prices unchanged and both inside one pricing-cache TTL window
\* (no entry expired or was replaced in between), return the same
\* monthlyTotal and the same line items; no step of a calculation changes
\* the record.
C16_CostIdempotent ==
    [][/\ orgs' = orgs
       /\ (baseline.valid /\ baseline'.valid) =>
            /\ baseline'.result.monthlyTotal = baseline.result.monthlyTotal
            /\ baseline'.result.items = baseline.result.items]_vars

\* a second calculation for the organization returned from the cache what
\* the first had returned from the provider
C16_Witness ==
    /\ billingCalls = 2
    /\ billed.kind = "org" /\ billed.ok
    /\ baseline.valid
    /\ billed.result = baseline.result
    /\ billed.result.items # << >>
    /\ billed.result.monthlyTotal > 0
    /\ priced # << >>
    /\ \A k \in 1..Len(priced) : priced[k].outcome = "hit"

\* ====================================================================
\* Properties of the build event watcher
\* ====================================================================
\* C17 as stated: at every moment at most one build-event subscription is
\* active in the process, for any sequence of start, stop, transport-error
\* and reconnect-timer events.
C17_AtMostOneSubscription == Active(subs) <= 1

\* C18 as stated: after an explicit stop of the watcher the stored handle is
\* cleared and no subscription is or becomes active again until the next
\* explicit start, even when a reconnect was pending or the cancellation
\* itself triggers the error callback.
C18_StoppedStaysStopped ==
    ~wanted => (~watchRequest /\ Active(subs) = 0)

\* in this step the error callback of a subscription is called
ErrorReported ==
    /\ BagCardinality(subs') < BagCardinality(subs)
    /\ watchRequest' = watchRequest

\* in this step watch.watch throws in startWatching
EstablishFailed ==
    /\ subs' = subs
    /\ BagCardinality(timers') + BagCardinality(subs')
            > BagCardinality(timers) + BagCardinality(subs)
       \/ \E due \in BagToSet(timers) :
            CopiesIn(due, timers') < CopiesIn(due, timers)

\* in this step startWatching opens a subscription
Opened == BagCardinality(subs') > BagCardinality(subs)

\* in this step the event callback of subscription sub is called for e
Delivers(sub, e) ==
    /\ BagIn(sub, subs)
    /\ e = sub.delivered + 1
    /\ subs' = (subs (-) SetToBag({sub}))
                    (+) SetToBag({[sub EXCEPT !.delivered = e]})

\* C19 as stated: after a transport error reported on the subscription the
\* watcher makes exactly one reconnect attempt, after the fixed delay (2 s
\* for an error on a running subscription, 1 s for an error while
\* establishing it); the new subscription processes only events whose time
\* is at or after the reconnect time, so no event delivered before the
\* error is processed again.
C19_ReconnectsOnceFromNow ==
    [][/\ ErrorReported =>
            timers' = timers (+) SetToBag({clock + 2000})
       /\ EstablishFailed =>
            \/ timers' = timers (+) SetToBag({clock + 1000})
            \/ \E due \in BagToSet(timers) :
                /\ due <= clock
                /\ timers' = (timers (-) SetToBag({due}))
                                (+) SetToBag({clock + 1000})
       /\ \A sub \in BagToSet(subs') :
            (Opened /\ sub.held /\ sub.by = "timer") =>
                /\ sub.since = clock
                /\ \E due \in BagToSet(timers) :
                        due <= clock /\ timers' = timers (-) SetToBag({due})
       /\ \A sub \in BagToSet(subs), e \in EventIds :
            (Delivers(sub, e) /\ posts(sub, events[e]) /\ sub.by = "timer")
                => events[e].eventTime >= sub.since]_vars

\* the event qualifies, occurred while the watcher was started, has neither
\* been posted nor failed in its lookup or a request, and no subscription,
\* open or yet to be opened, posts it
Lost(e) ==
    /\ events[e].occurred /\ events[e].owed
    /\ events[e].reason \in REASONS
    /\ containerSlug(events[e].taskRun.eventlistener) # ""
    /\ ~events[e].posted /\ ~events[e].failed
    /\ events[e].stamped /\ events[e].eventTime < clock
    /\ \A sub \in BagToSet(subs) :
            sub.state = "active" =>
                sub.delivered >= e \/ events[e].eventTime < sub.since

\* C20 as stated: every qualifying build event (reason in the fixed
\* vocabulary, attributable to a container) that occurs after the watcher
\* was started is processed at least once, whatever transport errors and
\* reconnects happen in between: no such event is lost.
C20_NoEventLost == \A e \in EventIds : ~Lost(e)

\* ====================================================================
\* Properties of the event callback and the commit status notifier
\* ====================================================================
\* the event callback has run for the event observed and the lookup it
\* started resolved to a TaskRun
Resolved == effects.called /\ effects.lookup /\ delivery.taskRunObj.found

\* the telemetry post is sent
Posted == effects.telemetry # NoEffects.telemetry

\* a commit status request is sent
Requested == effects.commit # << >>

\* C21 as stated: the container identifier of an event is the third
\* dash-delimited segment of the TaskRun's event listener label; when the
\* label is absent or has fewer than three segments the event is skipped
\* entirely: no telemetry post, no commit status notification, and no
\* failure of the watcher.
C21_SlugThirdSegmentElseSkipped ==
    LET name == delivery.taskRunObj.eventlistener
    IN Resolved =>
        /\ Posted => /\ Len(name) >= 3
                     /\ effects.telemetry.containerSlug = name[3]
        /\ Len(name) < 3 =>
                /\ ~Posted
                /\ ~effects.notified /\ ~Requested
                /\ ~effects.unhandled

\* the eight reasons of the vocabulary
Vocabulary ==
    {"Failed", "Succeeded", "Error", "Started", "Running",
     "TaskRunCancelled", "TaskRunTimeout", "TaskRunImagePullFailed"}

\* C22: for an event with one of the eight reasons that is processed, the
\* telemetry post carries the container identifier and the reason without
\* its leading TaskRun as the status; an event with any other reason
\* causes no lookup and no side effect.
C22_StatusIsReasonWithoutTaskRun ==
    LET reason == delivery.reason
        name == delivery.taskRunObj.eventlistener
        expected == CASE reason = "TaskRunCancelled" -> "Cancelled"
                      [] reason = "TaskRunTimeout" -> "Timeout"
                      [] reason = "TaskRunImagePullFailed" -> "ImagePullFailed"
                      [] OTHER -> reason
    IN effects.called =>
        /\ Posted =>
                /\ reason \in Vocabulary
                /\ effects.telemetry =
                        [containerSlug |-> name[3], status |-> expected]
        /\ (Resolved /\ delivery.taskRunObj.labels /\ Len(name) >= 3
                /\ name[3] # "") => Posted
        /\ reason \notin Vocabulary =>
                effects = [NoEffects EXCEPT !.called = TRUE]

\* the status of an image pull failure is posted for the container
C22_Witness ==
    /\ delivery.reason = "TaskRunImagePullFailed"
    /\ effects.telemetry =
            [containerSlug |-> "lkv0ier4", status |-> "ImagePullFailed"]

\* the six terminal reasons
Terminal ==
    {"Succeeded", "Failed", "Error", "TaskRunCancelled", "TaskRunTimeout",
     "TaskRunImagePullFailed"}

\* C23: the commit status notifier is invoked for a processed event exactly
\* when its reason is one of the six terminal reasons, and never for
\* Started or Running.
C23_NotifierForTerminalOnly ==
    effects.called =>
        /\ effects.notified => delivery.reason \in Terminal
        /\ (Posted /\ delivery.reason \in Terminal) => effects.notified
        /\ delivery.reason \in {"Started", "Running"} =>
                ~effects.notified /\ ~Requested
        /\ Requested => effects.notified

\* a processed timeout event has the notifier invoked
C23_Witness ==
    /\ delivery.reason = "TaskRunTimeout"
    /\ Posted
    /\ effects.notified

\* C24: when the TaskRun's parameters hold no GitHub, GitLab or Bitbucket
\* token, or the revision is missing, empty or "N/A", the notifier sends no
\* request and raises no error.
C24_NoTokenOrRevisionNoRequest ==
    LET taskRunObj == delivery.taskRunObj
        params == taskRunObj.params
        noToken == /\ params.githubpat = ""
                   /\ params.gitlabpat = ""
                   /\ params.bitbucketpat = ""
    IN (effects.notified
            /\ (~taskRunObj.hasParams \/ noToken
                    \/ params.gitrevision \in {"", "N/A"})) =>
        /\ ~Requested
        /\ effects.logged \subseteq {"telemetry"}
        /\ ~effects.unhandled

\* the notifier is invoked for a TaskRun with a token and the revision
\* "N/A", and sends nothing
C24_Witness ==
    /\ effects.notified
    /\ delivery.taskRunObj.hasParams
    /\ delivery.taskRunObj.params.githubpat # ""
    /\ delivery.taskRunObj.params.gitrepourl # ""
    /\ delivery.taskRunObj.params.gitrevision = "N/A"
    /\ ~Requested

\* C25: the state sent is the provider's success word exactly when the
\* reason is Succeeded or TaskRunCancelled and its failure word for every
\* other reason; the request targets the commit of the revision parameter.
C25_StateWordFollowsReason ==
    \A i \in 1..Len(effects.commit) :
        LET request == effects.commit[i]
            success == delivery.reason \in {"Succeeded", "TaskRunCancelled"}
        IN /\ delivery.reason \in Terminal
           /\ request.sha = delivery.taskRunObj.params.gitrevision
           /\ request.provider \in {"github", "gitlab", "bitbucket"}
           /\ request.provider = "github" =>
                request.state = IF success THEN "success" ELSE "failure"
           /\ request.provider = "gitlab" =>
                request.state = IF success THEN "success" ELSE "failed"
           /\ request.provider = "bitbucket" =>
                request.state = IF success THEN "SUCCESSFUL" ELSE "FAILED"

\* a cancelled run is reported to Bitbucket as successful
C25_Witness ==
    /\ delivery.reason = "TaskRunCancelled"
    /\ Len(effects.commit) = 1
    /\ effects.commit[1].provider = "bitbucket"
    /\ effects.commit[1].state = "SUCCESSFUL"
    /\ effects.commit[1].sha = "4f2a9c1"

\* C26: the provider is that of the first token parameter present in the
\* order GitHub, GitLab, Bitbucket; one call of the notifier sends at most
\* one request, to that provider and with its token, also when several
\* tokens are present, and a request that fails is not sent again.
C26_FirstTokenOneRequest ==
    LET params == delivery.taskRunObj.params
        first == IF params.githubpat # "" THEN "github"
                 ELSE IF params.gitlabpat # "" THEN "gitlab"
                 ELSE "bitbucket"
        token == IF params.githubpat # "" THEN params.githubpat
                 ELSE IF params.gitlabpat # "" THEN params.gitlabpat
                 ELSE params.bitbucketpat
    IN /\ Len(effects.commit) <= 1
       /\ Requested =>
            /\ effects.commit[1].provider = first
            /\ effects.commit[1].pat = token

\* all three tokens are present and the one request, which fails, goes to
\* GitHub
C26_Witness ==
    /\ delivery.taskRunObj.params.githubpat # ""
    /\ delivery.taskRunObj.params.gitlabpat # ""
    /\ delivery.taskRunObj.params.bitbucketpat # ""
    /\ Len(effects.commit) = 1
    /\ effects.commit[1].provider = "github"
    /\ "commit" \in effects.logged

\* ====================================================================
\* Properties of the watcher while events are processed
\* ====================================================================
\* C27: a failure of the TaskRun lookup, of the telemetry post or of the
\* commit status request for one event is not retried and does not stop,
\* fail or delay the watcher: the handle, the subscriptions and the timers
\* stay as they are, the subscription goes on to the next event, the
\* request is sent once and no rejection is left unhandled.
C27_FailuresLeaveWatcherRunning ==
    [][(effects'.called /\ effects'.logged # {}) =>
            /\ watchRequest' = watchRequest
            /\ timers' = timers
            /\ clock' = clock
            /\ BagCardinality(subs') = BagCardinality(subs)
            /\ Active(subs') = Active(subs)
            /\ \E sub \in BagToSet(subs) :
                    /\ sub.state = "active"
                    /\ BagIn([sub EXCEPT !.delivered = sub.delivered + 1],
                             subs')
            /\ Len(effects'.commit) <= 1
            /\ ~effects'.unhandled]_vars

\* the lookup for the first event failed, and the same subscription has
\* processed the second event since
C27_Witness ==
    /\ watchRequest
    /\ \E sub \in BagToSet(subs) :
            /\ sub.state = "active" /\ sub.held
            /\ sub.delivered = 2
            /\ posts(sub, events[1])
    /\ events[1].failed /\ ~events[1].posted
    /\ events[2].posted

\* ====================================================================
\* Properties of usage tracking
\* ====================================================================
\* C28: usage tracking sends no request when no usage endpoint is
\* configured, and whatever becomes of the post (it succeeds, fails or
\* times out) the operation that sent it gives the response and writes the
\* record it gives without it: 201 and the cluster's fields for a
\* provision, 201 and the pool appended for an added pool, 200 and ha for
\* an HA upgrade, and for a delete the handler goes on to clear the record.
C28_UsageNeverInterferes ==
    [][/\ usageEndpoint = "" => usage' = << >>
       /\ Len(usage') <= 1
       /\ usage' # << >> =>
            LET event == usage'[1].properties
            IN \E req \in BagToSet(inflight) :
                /\ Stepped(req)
                /\ event.action = "cluster_provision" =>
                        /\ req.kind = "provision"
                        /\ event.clusterId = req.cluster.id
                        /\ resp' = Response(req, 201)
                        /\ doks' = updateOneById(doks,
                                        clusterInfoFields(req.cluster))
                /\ event.action = "node_pool_add" =>
                        /\ req.kind = "addPool"
                        /\ resp' = Response(req, 201)
                        /\ doks' = updateOneById(doks,
                                [nodePools |-> poolsAfterAdd(req.org, req.pool)])
                /\ event.action = "ha_upgrade" =>
                        /\ req.kind = "upgradeHA"
                        /\ resp' = Response(req, 200)
                        /\ doks' = updateOneById(doks, haFields)
                /\ event.action = "cluster_delete" =>
                        /\ req.kind = "deleteCluster"
                        /\ event.clusterId = req.org.clusterId
                        /\ resp' = NoResp
                        /\ doks' = doks
                        /\ Became([Called(req, "deleteDOKSCluster")
                                        EXCEPT !.pc = "clear"])]_vars

\* a provision answers 201 with its cluster recorded while its usage post
\* times out
C28_Witness ==
    /\ usage # << >>
    /\ usage[1].outcome = "timeout"
    /\ usage[1].properties.action = "cluster_provision"
    /\ resp.kind = "provision" /\ resp.code = 201
    /\ doks.clusterId = usage[1].properties.clusterId

\* ====================================================================
\* Properties of the cluster identity and of the provision conflict check
\* ====================================================================
\* C29 as stated: once clusterId and clusterName of the organization's
\* record are set, no later operation changes them to a different value,
\* under any sequence or interleaving of requests; they only disappear when
\* a confirmed delete clears the whole record.
C29_ClusterIdentityImmutable ==
    [][doks.clusterId # 0 =>
            \/ /\ doks'.clusterId = doks.clusterId
               /\ doks'.clusterName = doks.clusterName
            \/ /\ doks' = DoksNull
               /\ \E req \in BagToSet(inflight) :
                    /\ Stepped(req)
                    /\ req.kind = "deleteCluster"
                    /\ req.body.confirm = "true"]_vars

\* C30: the provision conflict check is a read followed, in later steps,
\* by the acts it guards.  A provision request that reads a record without
\* a cluster is never answered on arrival, whether or not another provision
\* is in flight: its handler goes on; and a handler that has passed the
\* check calls the provider's create operation whatever the record has
\* become since.  So two requests for an organization without a cluster
\* can both pass the check and both call create (the witness).
C30_CheckThenActNotAtomic ==
    [][/\ ~(/\ arrived' = arrived + 1
            /\ doks.clusterId = 0
            /\ resp'.kind = "provision")
       /\ \A req \in BagToSet(inflight) :
            (Stepped(req) /\ req.kind = "provision" /\ req.pc = "create") =>
                \E next \in BagToSet(inflight') :
                    Became(next) /\ "createDOKSCluster" \in next.called]_vars

\* two provision handlers have both called the provider's create operation
\* and the organization's record still has no cluster: both read it so
C30_Witness ==
    /\ doks.clusterId = 0
    /\ \E a, b \in BagToSet(inflight) :
        /\ a # b \/ CopiesIn(a, inflight) >= 2
        /\ a.kind = "provision" /\ b.kind = "provision"
        /\ "createDOKSCluster" \in a.called
        /\ "createDOKSCluster" \in b.called

\* ====================================================================
\* Properties of the cluster lifecycle controller: reconciliation
\* ====================================================================
\* the handlers at work, if any, are status polls that read the record
\* in status deleting: every request still in flight arrived after the
\* delete had marked the record
OnlyPollsOfDeleting ==
    \A req \in InFlight : req.kind = "status" /\ req.org.status = "deleting"

\* C31: once a confirmed delete has written status deleting and ended on a
\* failed provider call, the record stays in status deleting: no step of a
\* status poll or of any other request that arrives from then on moves it
\* out of deleting or clears it, until a new delete request is at work.
C31_FailedDeleteStaysDeleting ==
    [][(doks.status = "deleting" /\ OnlyPollsOfDeleting)
        => (~doks'.isNull /\ doks'.status = "deleting")]_vars

\* the provider call a handler of this kind makes
ProviderCall(kind) ==
    CASE kind = "addPool" -> "addNodePool"
      [] kind = "updatePool" -> "updateNodePool"
      [] kind = "deletePool" -> "deleteNodePool"
      [] kind = "upgradeHA" -> "upgradeToHA"
      [] OTHER -> ""

\* C32: an add, scale or delete node-pool request or an HA-upgrade request
\* reads the record on arrival without writing it, then calls the provider;
\* when that call fails the step answers with the error (500) and leaves
\* the record and the provider as they were, so the request has written
\* nothing; and every step of such a request that changes the record comes
\* after its provider call has returned.
C32_ProviderFailureLeavesRecord ==
    [][/\ arrived' = arrived + 1 => doks' = doks
       /\ \A req \in InFlight :
            (req.kind \in PoolKinds \cup {"upgradeHA"} /\ Stepped(req)) =>
                /\ req.pc = "call" =>
                    /\ req.called = {} /\ doks' = doks
                    /\ resp'.code # 0 =>
                        /\ resp' = Response(Called(req, ProviderCall(req.kind)), 500)
                        /\ cloud' = cloud
                /\ doks' # doks =>
                    req.pc = "write" /\ req.called = {ProviderCall(req.kind)}]_vars

\* the provider refused to delete a node pool: the request was answered
\* with the error and the pool is still in the cached list of the running
\* cluster
C32_Witness ==
    /\ resp.kind = "deletePool" /\ resp.code = 500
    /\ resp.called = {"deleteNodePool"}
    /\ doks.status = "running"
    /\ \E i \in 1..Len(doks.nodePools) : doks.nodePools[i].poolId = resp.body.poolId

\* C33: an accepted provision request first writes the record with status
\* provisioning, the region asked for (sfo3 by default), ha and createdAt,
\* having made no provider call; only then does it call createDOKSCluster,
\* a step that writes nothing; and after that call has succeeded its last
\* step writes the clusterId, clusterName, endpoint and nodePools of the
\* provider's response, with status running exactly when the response's
\* state is running and provisioning otherwise, and answers 201.
C33_ProvisionWritesThenFollowsProvider ==
    [][\A req \in InFlight :
        (req.kind = "provision" /\ Stepped(req)) =>
            /\ req.pc = "mark" =>
                /\ req.called = {} /\ cloud' = cloud
                /\ Became([req EXCEPT !.pc = "create"])
                /\ ~doks'.isNull /\ doks'.status = "provisioning"
                /\ doks'.region = IF req.body.region = "" THEN "sfo3"
                                  ELSE req.body.region
                /\ doks'.ha = req.body.ha
                /\ doks'.createdAt = CREATED_AT
            /\ req.pc = "create" =>
                /\ req.called = {} /\ doks' = doks
                /\ \E next \in BagToSet(inflight') :
                    Became(next) /\ next.called = {"createDOKSCluster"}
            /\ req.pc = "update" =>
                /\ req.called = {"createDOKSCluster"} /\ req.cluster.exists
                /\ resp' = Response(req, 201)
                /\ doks'.clusterId = req.cluster.id
                /\ doks'.clusterName = req.cluster.name
                /\ doks'.endpoint = req.cluster.endpoint
                /\ doks'.nodePools = cachedPools(req.cluster.node_pools)
                /\ doks'.status = IF req.cluster.state = "running"
                                  THEN "running" ELSE "provisioning"]_vars

\* a provision request for nyc1 with HA was answered 201 while the
\* provider still reported the new cluster as provisioning: the record has
\* the cluster's id and pool and status provisioning
C33_Witness ==
    /\ resp.kind = "provision" /\ resp.code = 201
    /\ resp.body.region = "nyc1"
    /\ doks.clusterId # 0 /\ doks.status = "provisioning"
    /\ doks.region = "nyc1" /\ doks.ha /\ doks.createdAt = CREATED_AT
    /\ cloud[doks.clusterId].state = "provisioning"
    /\ doks.nodePools = cachedPools(cloud[doks.clusterId].node_pools)

\* C34: a status poll that read the record in status running, and is
\* answered by the provider, which reports the cluster running, leaves the
\* record of that running cluster with the provider's endpoint and the
\* provider's node pools.
C34_PollRefreshesRunning ==
    [][\A req \in InFlight :
        (/\ req.kind = "status" /\ req.pc = "get" /\ Stepped(req)
         /\ req.org.status = "running"
         /\ doks.status = "running" /\ doks.clusterId = req.org.clusterId
         /\ cloud[req.org.clusterId].state = "running"
         /\ resp'.code = 200)
        => /\ doks'.endpoint = cloud[req.org.clusterId].endpoint
           /\ doks'.nodePools =
                cachedPools(cloud[req.org.clusterId].node_pools)]_vars

\* ====================================================================
\* Properties of the build event watcher: time filter and dispatch
\* ====================================================================
\* the event callback of subscription sub runs for event e in this step
Handles(sub, e) ==
    /\ effects'.called
    /\ e = sub.delivered + 1
    /\ subs' = (subs (-) SetToBag({sub}))
                    (+) SetToBag({[sub EXCEPT !.delivered = e]})

\* C35: when a subscription, opened by watchBuildEvents or by a retry
\* timer, is delivered an event whose timestamp is earlier than the time
\* the subscription was opened at, the event callback returns without a
\* lookup of the TaskRun, without a telemetry post, without a commit status
\* request and without logging anything.
C35_OldEventsDropped ==
    [][effects'.called =>
        \A sub \in BagToSet(subs), e \in EventIds :
            (/\ Handles(sub, e)
             /\ events[e].stamped /\ events[e].eventTime < sub.since)
            => /\ effects' = [NoEffects EXCEPT !.called = TRUE]
               /\ events' = events]_vars

\* a subscription opened by a retry timer was delivered a Succeeded event
\* of a container's build that is older than the subscription, and the
\* callback did nothing
C35_Witness ==
    /\ effects = [NoEffects EXCEPT !.called = TRUE]
    /\ \E sub \in BagToSet(subs) :
        /\ sub.by = "timer" /\ sub.delivered \in EventIds
        /\ LET event == events[sub.delivered]
           IN /\ event.stamped /\ event.eventTime < sub.since
              /\ event.reason = "Succeeded"
              /\ containerSlug(event.taskRun.eventlistener) # ""
              /\ ~event.posted

\* C36: the event callback returns without waiting for the lookup it
\* starts: the step in which an event is delivered issues no telemetry post
\* and no commit status request, and leaves the lookup pending when the
\* event passes the time filter and the vocabulary test; a telemetry post
\* is issued only by the step in which the event's own lookup settles,
\* which is no step of the subscription.  Nothing orders the lookups of
\* two events, so the post of the later event can be issued first.
C36_DispatchedWithoutBlocking ==
    [][/\ effects'.called =>
            \A sub \in BagToSet(subs), e \in EventIds :
                Handles(sub, e) =>
                    /\ effects'.telemetry = NoEffects.telemetry
                    /\ effects'.commit = << >>
                    /\ events'[e].issued = events[e].issued
                    /\ events'[e].pending =
                        (/\ ~(events[e].stamped
                                /\ events[e].eventTime < sub.since)
                         /\ events[e].reason \in REASONS)
       /\ \A e \in EventIds :
            events'[e].issued # events[e].issued =>
                /\ events[e].pending /\ ~events'[e].pending
                /\ subs' = subs
                /\ effects'.telemetry # NoEffects.telemetry]_vars

\* two events were delivered, the first before the second, and the
\* telemetry post of the second was issued before that of the first
C36_Witness ==
    /\ \E sub \in BagToSet(subs) : sub.delivered >= 2
    /\ events[1].issued = 2 /\ events[2].issued = 1
    /\ events[1].posted /\ events[2].posted

\* ====================================================================
\* Properties of the cluster lifecycle controller: node pools
\* ====================================================================
\* C37: in every reachable state the cached data holds node-pool entries
\* only in a cluster record that has a clusterId; in particular none is
\* left and none reappears once a confirmed delete has cleared the record,
\* whatever requests were in flight during the delete.
C37_PoolsOnlyWithCluster ==
    doks.nodePools # << >> => (~doks.isNull /\ doks.clusterId # 0)

\* C38: in every reachable state the poolIds of the cached nodePools are
\* pairwise distinct, the provider assigning a fresh id to every pool it
\* creates, whatever the interleaving of the requests.
C38_PoolIdsDistinct ==
    \A i, j \in 1..Len(doks.nodePools) :
        doks.nodePools[i].poolId = doks.nodePools[j].poolId => i = j

\* a node pool was added to a running cluster: the cached list has two
\* pools or more
C38_Witness ==
    /\ resp.kind = "addPool" /\ resp.code = 201
    /\ doks.status = "running" /\ Len(doks.nodePools) >= 2

\* ====================================================================
\* Properties of the cluster lifecycle controller: status polls
\* ====================================================================
\* C39: a status poll goes on to write the record exactly when the provider
\* answers that the cluster is running and the status the poll read is not
\* running; the write sets status running, the provider's endpoint and the
\* provider's node pools and nothing else, whatever the status read was;
\* in every other case the poll answers without changing the record.
C39_PollWritesOnlyRunning ==
    [][\A req \in InFlight :
        (req.kind = "status" /\ Stepped(req)) =>
            LET cluster == cloud[req.org.clusterId]
            IN /\ req.org.clusterId # 0
               /\ req.pc = "get" =>
                    /\ doks' = doks
                    /\ resp'.code = 0 =>
                        /\ cluster.exists /\ cluster.state = "running"
                        /\ req.org.status # "running"
                        /\ Became([Called(req, "getDOKSCluster") EXCEPT
                                    !.pc = "write", !.cluster = cluster])
                    /\ resp'.code = 200 =>
                        /\ cluster.exists
                        /\ ~(cluster.state = "running"
                                /\ req.org.status # "running")
               /\ req.pc = "write" =>
                    /\ req.cluster.state = "running"
                    /\ req.org.status # "running"
                    /\ resp' = Response(req, 200)
                    /\ doks' = [doks EXCEPT
                            !.isNull = FALSE,
                            !.status = "running",
                            !.endpoint = req.cluster.endpoint,
                            !.nodePools = cachedPools(req.cluster.node_pools)]]_vars

\* a status poll has set the record to running while a confirmed delete,
\* which had set it to deleting, is still waiting for the provider
C39_Witness ==
    /\ resp.kind = "status" /\ resp.code = 200
    /\ doks.status = "running" /\ doks.endpoint = ENDPOINT
    /\ \E req \in InFlight :
        /\ req.kind = "deleteCluster" /\ req.pc = "call"
        /\ req.org.clusterId = doks.clusterId

\* a provision request has just been answered 201 and its cluster was
\* recorded as provisioning, the state the provider reported
ProvisionedNotYetRunning ==
    /\ resp.kind = "provision" /\ resp.code = 201
    /\ doks.clusterId # 0 /\ doks.status = "provisioning"

\* C40: when a provision request has succeeded with the provider reporting
\* the cluster as provisioning, the provider brings the cluster up, status
\* polls keep being issued and answered, and no delete is requested, the
\* cached status becomes running.
C40_PollingReachesRunning ==
    ProvisionedNotYetRunning ~> doks.status = "running"

\* a status poll has set the record to running, and a second poll, which
\* had read it as provisioning and was told running by the provider as
\* well, is about to write
C40_Witness ==
    /\ resp.kind = "status" /\ resp.code = 200
    /\ doks.status = "running" /\ doks.clusterId # 0
    /\ cloud[doks.clusterId].state = "running"
    /\ \E req \in InFlight :
        /\ req.kind = "status" /\ req.pc = "write"
        /\ req.org.status = "provisioning"
        /\ req.org.clusterId = doks.clusterId

====
